---- MODULE Spec2Model ----
(***************************************************************************)
(* KnowWhy decision intelligence pipeline.                                 *)
(*                                                                         *)
(* Spec      : DecisionDetectionAgent.detectDecisionsInConversation        *)
(*             (segmentation, one model call per window, acceptance rule,  *)
(*             deduplication).                                             *)
(* SpecSeg   : DecisionDetectionAgent.createSlidingWindows on its own.     *)
(* SpecSynth : one brief generation, by                                    *)
(*             RationaleGenerationAgent.generateRationale or by            *)
(*             DecisionBriefService.generateFromCandidate.                 *)
(* SpecContext : ContextExtractionAgent.extractContextForDecision.         *)
(* SpecRetrieve : AdvancedRetrievalService.retrieve.                       *)
(* SpecBrief : the status of a brief under approveBrief, archiveBrief and  *)
(*             updateBrief.                                                *)
(* SpecPersist : DecisionDetectionAgent.runDetection and                   *)
(*               runOnConversationIds, run one after the other.            *)
(* SpecLimiter : RateLimiter.waitForRateLimit under concurrent callers.    *)
(* SpecAsk, SpecAskFair : LLMService.askQuestion and its HTTP request.     *)
(* SpecAgent : DecisionBriefAgent.runForCandidate, calls side by side.     *)
(* SpecSlack : backfillWorkspace and incrementalSync of one workspace.     *)
(* SpecChunk, SpecChunkFair : the loop of TextChunker.chunkText.           *)
(* SpecBatch : extractContextForDecisions handed on to generateRationales. *)
(* SpecRace  : runDetection and runOnConversationIds in flight together.   *)
(*                                                                         *)
(* Strings are sequences of one-character strings.  Confidences are kept   *)
(* in thousandths (0.7 is 700); NaN is a value of its own.                 *)
(***************************************************************************)
EXTENDS Integers, Sequences, FiniteSets, TLC

\* ------------------------------------------------------------------------
\* Bounds of the model
\* ------------------------------------------------------------------------
MaxMsgs == 3
MaxTs == 2

\* ------------------------------------------------------------------------
\* Program constants
\* ------------------------------------------------------------------------
DefaultConfidenceThreshold == 700
DefaultWindowSize == 10
DefaultMaxRetries == 3
KeyLength == 50
TextFallbackConfidence == 500

NaN == 0 - 1000000

Min(a, b) == IF a <= b THEN a ELSE b

\* ------------------------------------------------------------------------
\* JavaScript strings
\* ------------------------------------------------------------------------
UpperChars ==
  <<"A", "B", "C", "D", "E", "F", "G", "H", "I", "J", "K", "L", "M",
    "N", "O", "P", "Q", "R", "S", "T", "U", "V", "W", "X", "Y", "Z">>

LowerChars ==
  <<"a", "b", "c", "d", "e", "f", "g", "h", "i", "j", "k", "l", "m",
    "n", "o", "p", "q", "r", "s", "t", "u", "v", "w", "x", "y", "z">>

DigitChars == <<"0", "1", "2", "3", "4", "5", "6", "7", "8", "9">>

IsUpper(c) == \E i \in 1..26 : UpperChars[i] = c
IsLowerAlpha(c) == \E i \in 1..26 : LowerChars[i] = c
IsDigit(c) == \E i \in 1..10 : DigitChars[i] = c
DigitVal(c) == (CHOOSE i \in 1..10 : DigitChars[i] = c) - 1

toLowerChar(c) ==
  IF IsUpper(c) THEN LowerChars[CHOOSE i \in 1..26 : UpperChars[i] = c] ELSE c

\* String.prototype.toLowerCase
toLowerCase(s) == [i \in 1..Len(s) |-> toLowerChar(s[i])]

\* String.prototype.includes
includes(s, p) ==
  \E i \in 0..(Len(s) - Len(p)) : \A j \in 1..Len(p) : s[i + j] = p[j]

\* \s of a regular expression, and the line terminators "." does not match
IsSpace(c) == c \in {" ", "\n", "\t", "\r"}
IsLineEnd(c) == c \in {"\n", "\r"}
IsSep(c) == c = ":" \/ IsSpace(c)

\* String.prototype.trim
trim(s) ==
  LET keep == {i \in 1..Len(s) : ~IsSpace(s[i])}
  IN  IF keep = {} THEN <<>>
      ELSE LET lo == CHOOSE i \in keep : \A j \in keep : i <= j
               hi == CHOOSE i \in keep : \A j \in keep : j <= i
           IN  SubSeq(s, lo, hi)

\* String.prototype.substring(0, n)
substring0(s, n) == SubSeq(s, 1, Min(n, Len(s)))

\* s.replace(/[^a-z0-9]/g, '')
RECURSIVE stripNonAlnum(_)
stripNonAlnum(s) ==
  IF s = <<>> THEN <<>>
  ELSE LET c == Head(s)
       IN  (IF IsLowerAlpha(c) \/ IsDigit(c) THEN <<c>> ELSE <<>>)
           \o stripNonAlnum(Tail(s))

\* the word p, compared case-insensitively, starts at position i of s
WordAt(s, i, p) ==
  /\ i >= 1
  /\ i + Len(p) - 1 <= Len(s)
  /\ \A j \in 1..Len(p) : toLowerChar(s[i + j - 1]) = p[j]

\* length of the longest run of separators / digits / non-line-ends at i
SepRun(s, i) ==
  CHOOSE k \in 0..(Len(s) - i + 1) :
    /\ \A j \in i..(i + k - 1) : IsSep(s[j])
    /\ (i + k <= Len(s) => ~IsSep(s[i + k]))

DigitRun(s, i) ==
  CHOOSE k \in 0..(Len(s) - i + 1) :
    /\ \A j \in i..(i + k - 1) : IsDigit(s[j])
    /\ (i + k <= Len(s) => ~IsDigit(s[i + k]))

LineRun(s, i) ==
  CHOOSE k \in 0..(Len(s) - i + 1) :
    /\ \A j \in i..(i + k - 1) : ~IsLineEnd(s[j])
    /\ (i + k <= Len(s) => IsLineEnd(s[i + k]))

RECURSIVE DigitsValue(_)
DigitsValue(ds) ==
  IF ds = <<>> THEN 0
  ELSE 10 * DigitsValue(SubSeq(ds, 1, Len(ds) - 1)) + DigitVal(ds[Len(ds)])

\* the fractional digits of a decimal literal, in thousandths
FractionValue(ds) ==
  LET d(i) == IF i <= Len(ds) THEN DigitVal(ds[i]) ELSE 0
  IN  100 * d(1) + 10 * d(2) + d(3)

\* ------------------------------------------------------------------------
\* String literals of the program
\* ------------------------------------------------------------------------
SorryText ==
  <<"S", "o", "r", "r", "y", ",", " ", "I", " ", "c", "o", "u", "l", "d",
    "n", "'", "t", " ", "p", "r", "o", "c", "e", "s", "s", " ", "y", "o",
    "u", "r", " ", "q", "u", "e", "s", "t", "i", "o", "n", " ", "a", "t",
    " ", "t", "h", "i", "s", " ", "t", "i", "m", "e", ".">>

NoAnswerText ==
  <<"N", "o", " ", "a", "n", "s", "w", "e", "r", " ", "a", "v", "a", "i",
    "l", "a", "b", "l", "e", ".">>

DecisionDetectedText ==
  <<"D", "e", "c", "i", "s", "i", "o", "n", " ", "d", "e", "t", "e", "c",
    "t", "e", "d">>

AnalysisFailedText ==
  <<"A", "n", "a", "l", "y", "s", "i", "s", " ", "f", "a", "i", "l", "e",
    "d">>

WordConfidence == <<"c", "o", "n", "f", "i", "d", "e", "n", "c", "e">>
WordSummary == <<"s", "u", "m", "m", "a", "r", "y">>
WordTrue == <<"t", "r", "u", "e">>
WordYes == <<"y", "e", "s">>
WordDecision == <<"d", "e", "c", "i", "s", "i", "o", "n">>

\* ------------------------------------------------------------------------
\* JavaScript values as they come out of JSON.parse
\* ------------------------------------------------------------------------
JUndef == [t |-> "undefined"]
JNull == [t |-> "null"]
JBool(b) == [t |-> "bool", v |-> b]
JNum(n) == [t |-> "num", v |-> n]
JStr(s) == [t |-> "str", v |-> s]
JArr(n) == [t |-> "arr", len |-> n]

\* the value is falsy
Falsy(x) ==
  \/ x.t \in {"undefined", "null"}
  \/ (x.t = "bool" /\ ~x.v)
  \/ (x.t = "num" /\ (x.v = 0 \/ x.v = NaN))
  \/ (x.t = "str" /\ x.v = <<>>)

\* Boolean(x)
ToBoolean(x) == ~Falsy(x)

\* a whole string is a decimal literal digits[.digits]
IsDecimalLiteral(s) ==
  /\ Len(s) >= 1
  /\ LET n1 == DigitRun(s, 1)
     IN  /\ n1 >= 1
         /\ \/ n1 = Len(s)
            \/ /\ s[n1 + 1] = "."
               /\ n1 + 1 + DigitRun(s, n1 + 2) = Len(s)

DecimalValue(s) ==
  LET n1 == DigitRun(s, 1)
  IN  1000 * DigitsValue(SubSeq(s, 1, n1))
        + (IF n1 + 1 <= Len(s) /\ s[n1 + 1] = "."
           THEN FractionValue(SubSeq(s, n1 + 2, n1 + 1 + DigitRun(s, n1 + 2)))
           ELSE 0)

\* Number(x || dflt)
NumberOr(x, dflt) ==
  IF Falsy(x) THEN dflt
  ELSE IF x.t = "num" THEN x.v
  ELSE IF x.t = "bool" THEN 1000
  ELSE IF x.t = "str" /\ IsDecimalLiteral(trim(x.v)) THEN DecimalValue(trim(x.v))
  ELSE NaN

\* String(x || '') for the values a summary field can hold
StringOrEmpty(x) ==
  IF Falsy(x) THEN <<>>
  ELSE IF x.t = "str" THEN x.v
  ELSE IF x.t = "bool" THEN WordTrue
  ELSE <<"?">>

\* a >= b of JavaScript numbers
JsGeq(a, b) == a # NaN /\ b # NaN /\ a >= b

\* ------------------------------------------------------------------------
\* Window Segmenter: DecisionDetectionAgent.createSlidingWindows
\* ------------------------------------------------------------------------
\* a ConversationEvent: its id (the position the caller gave it) and timestamp
Message(i, t) == [id |-> i, ts |-> t]

\* Array.prototype.sort with (a, b) => a.timestamp - b.timestamp: stable
RECURSIVE InsertByTs(_, _)
InsertByTs(sorted, m) ==
  IF sorted = <<>> THEN <<m>>
  ELSE IF sorted[Len(sorted)].ts <= m.ts THEN Append(sorted, m)
  ELSE Append(InsertByTs(SubSeq(sorted, 1, Len(sorted) - 1), m),
              sorted[Len(sorted)])

RECURSIVE SortByTs(_)
SortByTs(msgs) ==
  IF msgs = <<>> THEN <<>>
  ELSE InsertByTs(SortByTs(SubSeq(msgs, 1, Len(msgs) - 1)), msgs[Len(msgs)])

\* the loop for (i = 0; i < length; i += W) of createSlidingWindows
RECURSIVE WindowsFrom(_, _, _)
WindowsFrom(sorted, i, W) ==
  IF ~(i < Len(sorted)) THEN <<>>
  ELSE LET windowMessages == SubSeq(sorted, i + 1, Min(i + W, Len(sorted)))
       IN  (IF Len(windowMessages) > 0
            THEN << [id |-> <<i, i + W>>,
                     messages |-> windowMessages,
                     windowStart |-> windowMessages[1].ts,
                     windowEnd |-> windowMessages[Len(windowMessages)].ts] >>
            ELSE <<>>)
           \o WindowsFrom(sorted, i + W, W)

\* as createSlidingWindows, but a chunk is kept only when it is full
createSlidingWindowsDropPartial(msgs, W) ==
  SelectSeq(WindowsFrom(SortByTs(msgs), 0, W),
            LAMBDA w : Len(w.messages) = W)

createSlidingWindows(msgs, W) == WindowsFrom(SortByTs(msgs), 0, W)

\* ------------------------------------------------------------------------
\* Decision Detector: replies of the model and their parsing
\* ------------------------------------------------------------------------
Rep(c, n) == [i \in 1..n |-> c]

\* summaries the model may give
SumPostgres == <<"U", "s", "e", " ", "P", "o", "s", "t", "g", "r", "e", "s">>
SumPostgresLoud ==
  <<"u", "s", "e", " ", "p", "o", "s", "t", "g", "r", "e", "s", "!", "!">>
SumKafka == <<"A", "d", "o", "p", "t", " ", "K", "a", "f", "k", "a">>
SumLongB == Rep("a", KeyLength) \o <<"b">>
SumLongC == Rep("A", KeyLength) \o <<" ", "c">>
SumLongD == Rep("a", KeyLength - 1) \o <<"d", "b">>

TextYes ==
  <<"Y", "e", "s", ".", " ", "C", "o", "n", "f", "i", "d", "e", "n", "c",
    "e", ":", " ", "0", ".", "9", "\n", "S", "u", "m", "m", "a", "r", "y",
    ":", " ", "U", "s", "e", " ", " ", "P", "o", "s", "t", "g", "r", "e",
    "s", "!", " ">>
TextPercent ==
  <<"d", "e", "c", "i", "s", "i", "o", "n", " ", "c", "o", "n", "f", "i",
    "d", "e", "n", "c", "e", " ", "9", "5">>
TextTrue == <<"I", "t", " ", "i", "s", " ", "t", "r", "u", "e", ".">>
TextNull == <<"n", "u", "l", "l">>

JsonObject(isDecision, summary, confidence) ==
  [t |-> "obj", isDecision |-> isDecision, summary |-> summary,
   confidence |-> confidence]

\* the body.text of the chat route: a string that is JSON or is not
JsonReply(value, text) == [json |-> TRUE, value |-> value, text |-> text]
TextReply(text) == [json |-> FALSE, value |-> JUndef, text |-> text]

\* what one call of the language model can do
Outcomes ==
  << [o |-> "fetchError", reply |-> TextReply(<<>>)],
     [o |-> "httpError", reply |-> TextReply(<<>>)],
     [o |-> "ok", reply |-> TextReply(TextYes)],
     [o |-> "ok", reply |-> TextReply(TextPercent)],
     [o |-> "ok", reply |-> TextReply(TextTrue)],
     [o |-> "ok", reply |-> JsonReply(JNull, TextNull)],
     [o |-> "ok", reply |->
        JsonReply(JsonObject(JBool(TRUE), JStr(SumPostgres), JNum(900)), <<>>)],
     [o |-> "ok", reply |->
        JsonReply(JsonObject(JBool(TRUE), JStr(SumPostgresLoud), JNum(700)), <<>>)],
     [o |-> "ok", reply |->
        JsonReply(JsonObject(JBool(TRUE), JStr(SumKafka), JNum(699)), <<>>)],
     [o |-> "ok", reply |->
        JsonReply(JsonObject(JBool(FALSE), JStr(SumPostgres), JNum(950)), <<>>)],
     [o |-> "ok", reply |->
        JsonReply(JsonObject(JBool(TRUE), JStr(SumLongB), JNum(800)), <<>>)],
     [o |-> "ok", reply |->
        JsonReply(JsonObject(JBool(TRUE), JStr(SumLongC), JNum(800)), <<>>)],
     [o |-> "ok", reply |->
        JsonReply(JsonObject(JBool(TRUE), JStr(SumLongD), JNum(1000)), <<>>)],
     [o |-> "ok", reply |->
        JsonReply(JsonObject(JStr(WordYes), JUndef, JStr(<<"h", "i", "g", "h">>)), <<>>)] >>

OutcomeIds == 1..Len(Outcomes)

\* LLMService.askQuestion(prompt, model, false): every failure is caught and
\* answered with the apology text; the call itself never throws
askQuestion(outcome) ==
  IF outcome.o \in {"fetchError", "httpError"}
  THEN [threw |-> FALSE, failed |-> TRUE, response |-> TextReply(SorryText)]
  ELSE IF ~outcome.reply.json /\ outcome.reply.text = <<>>
  THEN [threw |-> FALSE, failed |-> FALSE, response |-> TextReply(NoAnswerText)]
  ELSE [threw |-> FALSE, failed |-> FALSE, response |-> outcome.reply]

\* response.match(/confidence[:\s]+(\d+\.?\d*)/i): the start of the capture
ConfidenceCaptures(s) ==
  {i \in 1..Len(s) :
     /\ WordAt(s, i, WordConfidence)
     /\ SepRun(s, i + Len(WordConfidence)) >= 1
     /\ DigitRun(s, i + Len(WordConfidence)
                     + SepRun(s, i + Len(WordConfidence))) >= 1}

ConfidenceOfText(s) ==
  LET starts == ConfidenceCaptures(s)
  IN  IF starts = {} THEN TextFallbackConfidence
      ELSE LET i == CHOOSE x \in starts : \A y \in starts : x <= y
               d == i + Len(WordConfidence) + SepRun(s, i + Len(WordConfidence))
               n1 == DigitRun(s, d)
               dot == d + n1 <= Len(s) /\ s[d + n1] = "."
               n2 == IF dot THEN DigitRun(s, d + n1 + 1) ELSE 0
           IN  1000 * DigitsValue(SubSeq(s, d, d + n1 - 1))
                 + FractionValue(SubSeq(s, d + n1 + 1, d + n1 + n2))

\* response.match(/summary[:\s]+(.+)/i): the separators give characters
\* back until (.+) can take at least one character of the line
SummaryCaptureStart(s, i) ==
  LET base == i + Len(WordSummary)
      ks == {k \in 1..SepRun(s, base) :
               base + k <= Len(s) /\ ~IsLineEnd(s[base + k])}
  IN  IF ks = {} THEN 0
      ELSE base + (CHOOSE k \in ks : \A j \in ks : j <= k)

SummaryOfText(s) ==
  LET starts == {i \in 1..Len(s) :
                   WordAt(s, i, WordSummary) /\ SummaryCaptureStart(s, i) > 0}
  IN  IF starts = {} THEN DecisionDetectedText
      ELSE LET i == CHOOSE x \in starts : \A y \in starts : x <= y
               c == SummaryCaptureStart(s, i)
           IN  trim(SubSeq(s, c, c + LineRun(s, c) - 1))

\* the catch branch of parseAnalysisResponse: lexical heuristics
HeuristicAnalysis(text) ==
  [isDecision |-> \/ includes(toLowerCase(text), WordTrue)
                  \/ includes(toLowerCase(text), WordYes)
                  \/ includes(toLowerCase(text), WordDecision),
   summary |-> SummaryOfText(text),
   confidence |-> ConfidenceOfText(text),
   reasoning |-> "Parsed from text response"]

\* as parseAnalysisResponse, but a reply that is not JSON is an error
parseAnalysisResponseStrict(response) ==
  IF response.json /\ response.value.t = "obj"
  THEN [threw |-> FALSE,
        analysis |-> [isDecision |-> ToBoolean(response.value.isDecision),
                      summary |-> StringOrEmpty(response.value.summary),
                      confidence |-> NumberOr(response.value.confidence, 0),
                      reasoning |-> "json"]]
  ELSE [threw |-> TRUE, analysis |-> HeuristicAnalysis(response.text)]

\* DecisionDetectionAgent.parseAnalysisResponse: JSON.parse, and on any
\* exception of the try block (a syntax error, or a property read of null)
\* the lexical fallback
parseAnalysisResponse(response) ==
  IF response.json /\ response.value.t = "obj"
  THEN [threw |-> FALSE,
        analysis |-> [isDecision |-> ToBoolean(response.value.isDecision),
                      summary |-> StringOrEmpty(response.value.summary),
                      confidence |-> NumberOr(response.value.confidence, 0),
                      reasoning |-> "json"]]
  ELSE [threw |-> FALSE, analysis |-> HeuristicAnalysis(response.text)]

\* the analysis analyzeWindow returns when its retries are used up
FallbackAnalysis ==
  [isDecision |-> FALSE, summary |-> AnalysisFailedText, confidence |-> 0,
   reasoning |-> "fallback"]

\* one pass of the while loop of analyzeWindow, for each outcome of the call
CallResult ==
  [k \in OutcomeIds |->
     LET r == askQuestion(Outcomes[k])
     IN  IF r.threw THEN [threw |-> TRUE, failed |-> TRUE, analysis |-> FallbackAnalysis]
         ELSE LET p == parseAnalysisResponse(r.response)
              IN  [threw |-> p.threw, failed |-> r.failed, analysis |-> p.analysis]]

\* as generateDecisionKey, but without the truncation
generateDecisionKeyWhole(summary) == stripNonAlnum(toLowerCase(summary))

\* DecisionDetectionAgent.generateDecisionKey
generateDecisionKey(summary) ==
  substring0(stripNonAlnum(toLowerCase(summary)), KeyLength)

\* as Accepted, but the threshold is not applied
AcceptedAnyConfidence(analysis, threshold) == analysis.isDecision

\* the acceptance rule of detectDecisionsInConversation
Accepted(analysis, threshold) ==
  analysis.isDecision /\ JsGeq(analysis.confidence, threshold)

\* DecisionDetectionAgent.createDecisionCandidate
createDecisionCandidate(analysis, window, index) ==
  [conversationId |-> window.messages[1].id,
   isDecision |-> analysis.isDecision,
   summary |-> analysis.summary,
   confidence |-> analysis.confidence,
   window |-> index]

\* ------------------------------------------------------------------------
\* State
\* ------------------------------------------------------------------------
VARIABLES
  cfg,            \* DecisionDetectionConfig of the agent
  conversation,   \* the caller's message array
  windows,        \* the windows of the run
  pc,             \* where detectDecisionsInConversation is
  widx,           \* index of the window the for loop is at
  retries,        \* analyzeWindow: retries
  calls,          \* outcomes of the model calls made for the current window
  sleeps,         \* back-off sleeps (ms) made for the current window
  decisions,      \* detectDecisionsInConversation: decisions
  seenDecisions,  \* detectDecisionsInConversation: seenDecisions
  hist,           \* per finished window: its calls and its analysis
  input,          \* the message array as the caller passed it
  \* RationaleGenerationAgent.generateRationale
  rcfg,           \* RationaleGenerationConfig of the agent
  context,        \* the ExtractedContext handed in
  rpc,            \* where generateRationale is
  rationale,      \* generateRationale: rationale
  validation,     \* generateRationale: validation
  repairAttempts, \* generateRationale: repairAttempts
  llmCalls,       \* model calls made by the running generation
  allInvalid,     \* every reply so far was not JSON
  result,         \* what generateRationale returned
  \* DecisionBriefService.generateFromCandidate
  fpc,            \* where generateFromCandidate is
  parsed,         \* generateFromCandidate: parsed
  attempt,        \* generateFromCandidate: attempt
  lastErrors,     \* generateFromCandidate: lastErrors
  briefResult,    \* what generateFromCandidate returned
  briefReplies,   \* what each reply to generateFromCandidate parsed to
  \* ContextExtractionAgent.extractContextForDecision
  xcfg,           \* ContextExtractionConfig of the agent
  xconversation,  \* the conversation handed in
  xpc,            \* where extractContextForDecision is
  evidence,       \* extractContextForDecision: evidence
  xreply,         \* outcome of the model call of the extraction
  xresult,        \* what extractContextForDecision returned or threw
  \* AdvancedRetrievalService.retrieve
  qcfg,           \* RetrievalConfig of the service
  qpc,            \* where retrieve is
  decisionResults,     \* retrieve: decisionResults
  conversationResults, \* retrieve: conversationResults
  combinedResults,     \* retrieve: combinedResults
  finalResults,   \* retrieve: finalResults
  rerankReply,    \* outcome of the model call of rerankResults, 0 if none
  answerReply,    \* outcome of the model call of generateAnswer
  thrownAt,       \* the stage whose exception reached the catch of retrieve
  qresult,        \* what retrieve returned or threw
  \* DecisionBriefUtils and DecisionBriefService: the life of one brief
  memBrief,       \* the DecisionBrief object the helper functions return
  stored,         \* the decisionBrief row of the database
  bops,           \* operations applied so far
  bresult,        \* the last operation and how it ended
  \* DecisionDetectionAgent.runDetection and runOnConversationIds
  candidateRows,  \* the decisionCandidate table
  ppc,            \* where the running persistence step is
  pfn,            \* the function that is running
  detections,     \* detections of the run
  didx,           \* index of the detection the for loop is at
  scanned,        \* number of conversations the run fetched
  createdCount,   \* createdCount of the run
  presult,        \* what the last run returned
  pruns,          \* runs started so far
  nextUuid,       \* the next value of crypto.randomUUID
  handled,        \* per conversation: positive detections gone through
  \* RateLimiter.waitForRateLimit and its concurrent callers
  requestTimes,   \* RateLimiter.requestTimes
  now,            \* Date.now()
  lpc,            \* per caller: where its waitForRateLimit is
  wakeAt,         \* per caller: when the setTimeout of its wait fires
  lcalls,         \* calls of waitForRateLimit started so far
  ticks,          \* clock advances other than to a timer
  admitted,       \* the times of all requests recorded so far
  \* LLMService.askQuestion, one call after the other
  apc,            \* where the running askQuestion is
  stream,         \* askQuestion: stream
  http,           \* what the HTTP request of the call will do
  areply,         \* what the last askQuestion returned
  acalls,         \* calls returned so far
  elapsed,        \* clock ticks since the running call began
  callMetrics,    \* increments of the metrics counters by the running call
  \* DecisionBriefAgent.runForCandidate, several calls in flight
  briefRows,      \* the decision_briefs table
  gpc,            \* per call: where runForCandidate is
  requested,      \* per call: decisionCandidateId
  generation,     \* per call: what generateFromCandidate returned
  wrote,          \* per call: the call created a decision_briefs row
  gresult,        \* per call: what runForCandidate returned
  \* Slack ingestion: backfillWorkspace and incrementalSync of one workspace
  slackHistory,     \* per channel: the ts of the messages Slack holds
  slackRows,        \* the conversations rows of source slack, by externalId
  slackSyncStatus,  \* the slack_sync_status row of the workspace
  spc,              \* which sync runs: "idle", "backfill", "incremental"
  pendingChannels,  \* the channels the running sync has not handled yet
  oldest,           \* the cursor incrementalSync read when it started
  syncRuns,         \* how many syncs were started
  runFailed,        \* a channel of the running sync reached its catch
  backfills,        \* what each of the latest clean backfills left behind
  \* TextChunker.chunkText, one call
  chunkInput,     \* text.length and the chunkSize and overlap of the chunker
  startIndex,     \* the local startIndex
  chunks,         \* the first MaxChunks chunks pushed, as <<from, to>>
  cpc,            \* where the call is: "loop", "returned"
  \* extractContextForDecisions followed by generateRationales, one batch
  batchDecisions, \* the decisions array, by decision id
  batchContexts,  \* the contexts array extractContextForDecisions builds
  batchPc,        \* "extract", "generate", "done"
  batchIndex,     \* the position of the running loop in decisions
  batchUsed,      \* per generateRationale call: decision id and context
  \* runDetection and runOnConversationIds, runs in flight side by side
  sharedCandidates, \* the decision_candidates table the runs share
  runPc,            \* per run: "idle", "find", "create", "done"
  runFn,            \* per run: the function that was called
  runDetections,    \* per run: what detectDecisions returned
  runIndex,         \* per run: the position of its for loop
  runCreated,       \* per run: createdCount
  uuidCounter       \* the next crypto.randomUUID value

detVars ==
  <<cfg, conversation, windows, pc, widx, retries, calls, sleeps, decisions,
    seenDecisions, hist, input>>

synthVars ==
  <<rcfg, context, rpc, rationale, validation, repairAttempts, llmCalls,
    allInvalid, result, fpc, parsed, attempt, lastErrors, briefResult,
    briefReplies>>

ctxVars == <<xcfg, xconversation, xpc, evidence, xreply, xresult>>

retrVars ==
  <<qcfg, qpc, decisionResults, conversationResults, combinedResults,
    finalResults, rerankReply, answerReply, thrownAt, qresult>>

briefVars == <<memBrief, stored, bops, bresult>>

persistVars ==
  <<candidateRows, ppc, pfn, detections, didx, scanned, createdCount,
    presult, pruns, nextUuid, handled>>

limiterVars == <<requestTimes, now, lpc, wakeAt, lcalls, ticks, admitted>>

askVars == <<apc, stream, http, areply, acalls, elapsed, callMetrics>>

agentVars == <<briefRows, gpc, requested, generation, wrote, gresult>>

slackVars ==
  <<slackHistory, slackRows, slackSyncStatus, spc, pendingChannels,
    oldest, syncRuns, runFailed, backfills>>

chunkVars == <<chunkInput, startIndex, chunks, cpc>>

batchVars == <<batchDecisions, batchContexts, batchPc, batchIndex, batchUsed>>

raceVars ==
  <<sharedCandidates, runPc, runFn, runDetections, runIndex, runCreated,
    uuidCounter>>

vars ==
  <<detVars, synthVars, ctxVars, retrVars, briefVars, persistVars, limiterVars, askVars, agentVars, slackVars, chunkVars, batchVars, raceVars>>

\* what an action of one component leaves alone
outsideDetector ==
  <<synthVars, ctxVars, retrVars, briefVars, persistVars, limiterVars, askVars, agentVars, slackVars, chunkVars, batchVars, raceVars>>
outsideSynth ==
  <<detVars, ctxVars, retrVars, briefVars, persistVars, limiterVars, askVars, agentVars, slackVars, chunkVars, batchVars, raceVars>>
outsideContext ==
  <<detVars, synthVars, retrVars, briefVars, persistVars, limiterVars, askVars, agentVars, slackVars, chunkVars, batchVars, raceVars>>
outsideRetrieval ==
  <<detVars, synthVars, ctxVars, briefVars, persistVars, limiterVars, askVars, agentVars, slackVars, chunkVars, batchVars, raceVars>>
outsideBrief ==
  <<detVars, synthVars, ctxVars, retrVars, persistVars, limiterVars, askVars, agentVars, slackVars, chunkVars, batchVars, raceVars>>
outsidePersist ==
  <<detVars, synthVars, ctxVars, retrVars, briefVars, limiterVars, askVars, agentVars, slackVars, chunkVars, batchVars, raceVars>>
outsideLimiter ==
  <<detVars, synthVars, ctxVars, retrVars, briefVars, persistVars, askVars, agentVars, slackVars, chunkVars, batchVars, raceVars>>
outsideAsk ==
  <<detVars, synthVars, ctxVars, retrVars, briefVars, persistVars, limiterVars, agentVars, slackVars, chunkVars, batchVars, raceVars>>
outsideAgent ==
  <<detVars, synthVars, ctxVars, retrVars, briefVars, persistVars, limiterVars, askVars, slackVars, chunkVars, batchVars, raceVars>>
outsideSlack ==
  <<detVars, synthVars, ctxVars, retrVars, briefVars, persistVars, limiterVars, askVars, agentVars, chunkVars, batchVars, raceVars>>
outsideChunk ==
  <<detVars, synthVars, ctxVars, retrVars, briefVars, persistVars, limiterVars, askVars, agentVars, slackVars, batchVars, raceVars>>
outsideBatch ==
  <<detVars, synthVars, ctxVars, retrVars, briefVars, persistVars, limiterVars, askVars, agentVars, slackVars, chunkVars, raceVars>>
outsideRace ==
  <<detVars, synthVars, ctxVars, retrVars, briefVars, persistVars, limiterVars, askVars, agentVars, slackVars, chunkVars, batchVars>>

\* the variables of the components a specification does not run
DetectorIdle ==
  /\ cfg = [confidenceThreshold |-> DefaultConfidenceThreshold,
            slidingWindowSize |-> DefaultWindowSize,
            maxRetries |-> DefaultMaxRetries]
  /\ conversation = <<>>
  /\ input = <<>>
  /\ pc = "idle"
  /\ windows = <<>>
  /\ widx = 1
  /\ retries = 0
  /\ calls = <<>>
  /\ sleeps = <<>>
  /\ decisions = <<>>
  /\ seenDecisions = {}
  /\ hist = <<>>

NoValue == [t |-> "none"]

SynthIdle ==
  /\ rcfg = NoValue
  /\ context = NoValue
  /\ rpc = "idle"
  /\ rationale = NoValue
  /\ validation = NoValue
  /\ repairAttempts = 0
  /\ llmCalls = 0
  /\ allInvalid = TRUE
  /\ result = NoValue
  /\ fpc = "idle"
  /\ parsed = NoValue
  /\ attempt = 0
  /\ lastErrors = <<>>
  /\ briefResult = NoValue
  /\ briefReplies = <<>>

ContextIdle ==
  /\ xcfg = NoValue
  /\ xconversation = <<>>
  /\ xpc = "idle"
  /\ evidence = <<>>
  /\ xreply = 0
  /\ xresult = NoValue

\* no model call was made for an answer
NotAsked == [asked |-> FALSE, failed |-> FALSE, tokens |-> <<>>]

RetrievalIdle ==
  /\ qcfg = NoValue
  /\ qpc = "idle"
  /\ decisionResults = <<>>
  /\ conversationResults = <<>>
  /\ combinedResults = <<>>
  /\ finalResults = <<>>
  /\ rerankReply = 0
  /\ answerReply = NotAsked
  /\ thrownAt = "none"
  /\ qresult = NoValue

BriefIdle ==
  /\ memBrief = NoValue
  /\ stored = NoValue
  /\ bops = 0
  /\ bresult = NoValue

PersistIdle ==
  /\ candidateRows = {}
  /\ ppc = "idle"
  /\ pfn = "none"
  /\ detections = <<>>
  /\ didx = 1
  /\ scanned = 0
  /\ createdCount = 0
  /\ presult = NoValue
  /\ pruns = 0
  /\ nextUuid = 1
  /\ handled = <<>>

LimiterIdle ==
  /\ requestTimes = <<>>
  /\ now = 0
  /\ lpc = <<>>
  /\ wakeAt = <<>>
  /\ lcalls = 0
  /\ ticks = 0
  /\ admitted = <<>>

\* no counter incremented
NoMetrics ==
  [llm_requests_total |-> 0, llm_request_errors_total |-> 0,
   llm_request_stream_errors_total |-> 0]

AskIdle ==
  /\ apc = "idle"
  /\ stream = FALSE
  /\ http = NoValue
  /\ areply = <<>>
  /\ acalls = 0
  /\ elapsed = 0
  /\ callMetrics = NoMetrics

AgentIdle ==
  /\ briefRows = {}
  /\ gpc = <<>>
  /\ requested = <<>>
  /\ generation = <<>>
  /\ wrote = <<>>
  /\ gresult = <<>>

SlackIdle ==
  /\ slackHistory = <<>>
  /\ slackRows = <<>>
  /\ slackSyncStatus = NoValue
  /\ spc = "off"
  /\ pendingChannels = {}
  /\ oldest = 0
  /\ syncRuns = 0
  /\ runFailed = FALSE
  /\ backfills = <<>>

ChunkIdle ==
  /\ chunkInput = NoValue
  /\ startIndex = 0
  /\ chunks = <<>>
  /\ cpc = "off"

BatchIdle ==
  /\ batchDecisions = <<>>
  /\ batchContexts = <<>>
  /\ batchPc = "off"
  /\ batchIndex = 0
  /\ batchUsed = <<>>

RaceIdle ==
  /\ sharedCandidates = {}
  /\ runPc = <<>>
  /\ runFn = <<>>
  /\ runDetections = <<>>
  /\ runIndex = <<>>
  /\ runCreated = <<>>
  /\ uuidCounter = 0

OutsideDetectorIdle ==
  SynthIdle /\ ContextIdle /\ RetrievalIdle /\ BriefIdle /\ PersistIdle /\ LimiterIdle /\ AskIdle /\ AgentIdle /\ SlackIdle /\ ChunkIdle /\ BatchIdle /\ RaceIdle
OutsideSynthIdle ==
  DetectorIdle /\ ContextIdle /\ RetrievalIdle /\ BriefIdle /\ PersistIdle /\ LimiterIdle /\ AskIdle /\ AgentIdle /\ SlackIdle /\ ChunkIdle /\ BatchIdle /\ RaceIdle
OutsideContextIdle ==
  DetectorIdle /\ SynthIdle /\ RetrievalIdle /\ BriefIdle /\ PersistIdle /\ LimiterIdle /\ AskIdle /\ AgentIdle /\ SlackIdle /\ ChunkIdle /\ BatchIdle /\ RaceIdle
OutsideRetrievalIdle ==
  DetectorIdle /\ SynthIdle /\ ContextIdle /\ BriefIdle /\ PersistIdle /\ LimiterIdle /\ AskIdle /\ AgentIdle /\ SlackIdle /\ ChunkIdle /\ BatchIdle /\ RaceIdle
OutsideBriefIdle ==
  DetectorIdle /\ SynthIdle /\ ContextIdle /\ RetrievalIdle /\ PersistIdle /\ LimiterIdle /\ AskIdle /\ AgentIdle /\ SlackIdle /\ ChunkIdle /\ BatchIdle /\ RaceIdle
OutsidePersistIdle ==
  DetectorIdle /\ SynthIdle /\ ContextIdle /\ RetrievalIdle /\ BriefIdle /\ LimiterIdle /\ AskIdle /\ AgentIdle /\ SlackIdle /\ ChunkIdle /\ BatchIdle /\ RaceIdle
OutsideLimiterIdle ==
  DetectorIdle /\ SynthIdle /\ ContextIdle /\ RetrievalIdle /\ BriefIdle /\ PersistIdle /\ AskIdle /\ AgentIdle /\ SlackIdle /\ ChunkIdle /\ BatchIdle /\ RaceIdle
OutsideAskIdle ==
  DetectorIdle /\ SynthIdle /\ ContextIdle /\ RetrievalIdle /\ BriefIdle /\ PersistIdle /\ LimiterIdle /\ AgentIdle /\ SlackIdle /\ ChunkIdle /\ BatchIdle /\ RaceIdle
OutsideAgentIdle ==
  DetectorIdle /\ SynthIdle /\ ContextIdle /\ RetrievalIdle /\ BriefIdle /\ PersistIdle /\ LimiterIdle /\ AskIdle /\ SlackIdle /\ ChunkIdle /\ BatchIdle /\ RaceIdle
OutsideSlackIdle ==
  DetectorIdle /\ SynthIdle /\ ContextIdle /\ RetrievalIdle /\ BriefIdle /\ PersistIdle /\ LimiterIdle /\ AskIdle /\ AgentIdle /\ ChunkIdle /\ BatchIdle /\ RaceIdle
OutsideChunkIdle ==
  DetectorIdle /\ SynthIdle /\ ContextIdle /\ RetrievalIdle /\ BriefIdle /\ PersistIdle /\ LimiterIdle /\ AskIdle /\ AgentIdle /\ SlackIdle /\ BatchIdle /\ RaceIdle
OutsideBatchIdle ==
  DetectorIdle /\ SynthIdle /\ ContextIdle /\ RetrievalIdle /\ BriefIdle /\ PersistIdle /\ LimiterIdle /\ AskIdle /\ AgentIdle /\ SlackIdle /\ ChunkIdle /\ RaceIdle
OutsideRaceIdle ==
  DetectorIdle /\ SynthIdle /\ ContextIdle /\ RetrievalIdle /\ BriefIdle /\ PersistIdle /\ LimiterIdle /\ AskIdle /\ AgentIdle /\ SlackIdle /\ ChunkIdle /\ BatchIdle

\* ------------------------------------------------------------------------
\* Spec: detectDecisionsInConversation
\* ------------------------------------------------------------------------
\* a conversation of n messages handed over newest first
DetectConversation(n) == [i \in 1..n |-> Message(i, ((n - i) % MaxTs) + 1)]

DetectConfigs ==
  [confidenceThreshold : {DefaultConfidenceThreshold, TextFallbackConfidence},
   slidingWindowSize : {1, 2, DefaultWindowSize},
   maxRetries : {0, DefaultMaxRetries}]

DetectorFresh ==
  /\ windows = <<>>
  /\ widx = 1
  /\ retries = 0
  /\ calls = <<>>
  /\ sleeps = <<>>
  /\ decisions = <<>>
  /\ seenDecisions = {}
  /\ hist = <<>>

Init ==
  /\ cfg \in DetectConfigs
  /\ conversation \in {DetectConversation(n) : n \in 0..MaxMsgs}
  /\ input = conversation
  /\ pc = "start"
  /\ DetectorFresh
  /\ OutsideDetectorIdle

\* as LoopControl, but a failed window ends the run with an exception
LoopControlAbort(failed, next, n) ==
  IF failed THEN "thrown" ELSE IF next > n THEN "done" ELSE "loop"

\* the for loop over the windows with its per-window try/catch: whatever
\* became of a window, the loop goes on to the next one
LoopControl(failed, next, n) == IF next > n THEN "done" ELSE "loop"

\* detectDecisionsInConversation up to the first await: segmentation
StartDetection ==
  /\ pc = "start"
  /\ windows' = createSlidingWindows(conversation, cfg.slidingWindowSize)
  /\ conversation' = SortByTs(conversation)
  /\ pc' = LoopControl(FALSE, 1, Len(windows'))
  /\ UNCHANGED <<cfg, widx, retries, calls, sleeps, decisions, seenDecisions,
                 hist, input>>
  /\ UNCHANGED outsideDetector

\* the rest of the loop body once analyzeWindow has returned an analysis
FinishWindow(analysis, failed, allCalls, allSleeps) ==
  LET decisionKey == generateDecisionKey(analysis.summary)
      push == /\ Accepted(analysis, cfg.confidenceThreshold)
              /\ decisionKey \notin seenDecisions
  IN  /\ decisions' =
           IF push
           THEN Append(decisions,
                       createDecisionCandidate(analysis, windows[widx], widx))
           ELSE decisions
      /\ seenDecisions' =
           IF push THEN seenDecisions \cup {decisionKey} ELSE seenDecisions
      /\ hist' = Append(hist, [calls |-> allCalls, sleeps |-> allSleeps,
                               failed |-> failed, analysis |-> analysis])
      /\ widx' = widx + 1
      /\ retries' = 0
      /\ calls' = <<>>
      /\ sleeps' = <<>>
      /\ pc' = LoopControl(failed, widx + 1, Len(windows))

\* one pass of the while loop of analyzeWindow: one model call
AnalyzeCall ==
  /\ pc = "loop"
  /\ retries < cfg.maxRetries
  /\ \E k \in OutcomeIds :
       LET r == CallResult[k]
       IN  IF ~r.threw
           THEN FinishWindow(r.analysis, r.failed, Append(calls, k), sleeps)
           ELSE IF retries + 1 >= cfg.maxRetries
           THEN FinishWindow(FallbackAnalysis, TRUE, Append(calls, k), sleeps)
           ELSE /\ retries' = retries + 1
                /\ calls' = Append(calls, k)
                /\ sleeps' = Append(sleeps, (2 ^ (retries + 1)) * 1000)
                /\ UNCHANGED <<decisions, seenDecisions, hist, widx, pc>>
  /\ UNCHANGED <<cfg, conversation, windows, input>>
  /\ UNCHANGED outsideDetector

\* analyzeWindow when the while loop is not entered at all
AnalyzeGiveUp ==
  /\ pc = "loop"
  /\ ~(retries < cfg.maxRetries)
  /\ FinishWindow(FallbackAnalysis, TRUE, calls, sleeps)
  /\ UNCHANGED <<cfg, conversation, windows, input>>
  /\ UNCHANGED outsideDetector

Next == StartDetection \/ AnalyzeCall \/ AnalyzeGiveUp

Spec == Init /\ [][Next]_vars

\* ------------------------------------------------------------------------
\* SpecSeg: createSlidingWindows applied to any message list
\* ------------------------------------------------------------------------
\* the example of the design notes: 25 messages, out of order
SegExample == [i \in 1..25 |-> Message(i, ((i * 7) % 5) + 1)]

SegConversations ==
  UNION {{[i \in 1..n |-> Message(i, f[i])] : f \in [1..n -> 1..MaxTs]} :
           n \in 0..MaxMsgs}
    \cup {SegExample}

InitSeg ==
  /\ cfg \in [confidenceThreshold : {DefaultConfidenceThreshold},
              slidingWindowSize : {1, 2, 3, DefaultWindowSize},
              maxRetries : {DefaultMaxRetries}]
  /\ conversation \in SegConversations
  /\ input = conversation
  /\ pc = "start"
  /\ DetectorFresh
  /\ OutsideDetectorIdle

Segment ==
  /\ pc = "start"
  /\ windows' = createSlidingWindows(conversation, cfg.slidingWindowSize)
  /\ conversation' = SortByTs(conversation)
  /\ pc' = "segmented"
  /\ UNCHANGED <<cfg, widx, retries, calls, sleeps, decisions, seenDecisions,
                 hist, input>>
  /\ UNCHANGED outsideDetector

NextSeg == Segment

SpecSeg == InitSeg /\ [][NextSeg]_vars

\* ------------------------------------------------------------------------
\* Properties of the Decision Detector
\* ------------------------------------------------------------------------
RECURSIVE Flatten(_)
Flatten(ws) ==
  IF ws = <<>> THEN <<>> ELSE Head(ws).messages \o Flatten(Tail(ws))

WindowSizes(ws) == [i \in 1..Len(ws) |-> Len(ws[i].messages)]

RECURSIVE SumSeq(_)
SumSeq(ns) == IF ns = <<>> THEN 0 ELSE Head(ns) + SumSeq(Tail(ns))

\* the analysis of a finished window passes the acceptance rule
WindowAccepted(w) ==
  /\ hist[w].analysis.isDecision = TRUE
  /\ hist[w].analysis.confidence # NaN
  /\ hist[w].analysis.confidence >= cfg.confidenceThreshold

\* the deduplication fingerprint as the design states it: lowercased,
\* everything but letters and digits removed, the first 50 characters
NormalizedKey(summary) ==
  LET kept == SelectSeq(toLowerCase(summary),
                        LAMBDA c : IsLowerAlpha(c) \/ IsDigit(c))
  IN  [i \in 1..Min(50, Len(kept)) |-> kept[i]]

\* C1: every candidate of the returned list comes from a window whose
\* analysis had isDecision = true and confidence >= confidenceThreshold, and
\* carries that confidence; a window whose analysis is not a decision or is
\* below the threshold contributes no candidate.
C1_OnlyAcceptedWindowsYieldCandidates ==
  /\ \A i \in 1..Len(decisions) :
       /\ decisions[i].window \in 1..Len(hist)
       /\ WindowAccepted(decisions[i].window)
       /\ decisions[i].confidence = hist[decisions[i].window].analysis.confidence
       /\ decisions[i].confidence >= cfg.confidenceThreshold
  /\ \A w \in 1..Len(hist) :
       ~WindowAccepted(w) => \A i \in 1..Len(decisions) : decisions[i].window # w

C1_Witness ==
  /\ pc = "done"
  /\ Len(decisions) >= 1
  /\ \E w \in 1..Len(hist) :
       hist[w].analysis.isDecision /\ ~WindowAccepted(w)
  /\ \E w \in 1..Len(hist) :
       /\ ~hist[w].analysis.isDecision
       /\ hist[w].analysis.confidence >= cfg.confidenceThreshold

\* C2: when accepted windows of one run have summaries with the same
\* normalized key, the output holds exactly one candidate for that key and
\* it is the one of the earliest such window.
C2_OneCandidatePerKeyEarliestWins ==
  \A w \in 1..Len(hist) :
    WindowAccepted(w) =>
      LET key == NormalizedKey(hist[w].analysis.summary)
          same == {v \in 1..Len(hist) :
                     /\ WindowAccepted(v)
                     /\ NormalizedKey(hist[v].analysis.summary) = key}
          first == CHOOSE v \in same : \A u \in same : v <= u
          cands == {i \in 1..Len(decisions) :
                      NormalizedKey(decisions[i].summary) = key}
      IN  /\ Cardinality(cands) = 1
          /\ \A i \in cands :
               /\ decisions[i].window = first
               /\ decisions[i].summary = hist[first].analysis.summary

C2_Witness ==
  /\ pc = "done"
  /\ \E v, w \in 1..Len(hist) :
       /\ v < w
       /\ WindowAccepted(v)
       /\ WindowAccepted(w)
       /\ hist[v].analysis.summary # hist[w].analysis.summary
       /\ Len(hist[v].analysis.summary) > 50
       /\ NormalizedKey(hist[v].analysis.summary)
            = NormalizedKey(hist[w].analysis.summary)
       /\ \E i \in 1..Len(decisions) : decisions[i].window = v
       /\ \A i \in 1..Len(decisions) : decisions[i].window # w

\* C3: for every message list and window size W >= 1 the windows are the
\* consecutive chunks of the timestamp-ascending message sequence: each has
\* 1..W messages, all but the last have W, every message is in exactly one
\* window, and the trailing partial chunk is kept (25 messages with W = 10
\* give windows of 10, 10 and 5).
C3_WindowsPartitionSortedMessages ==
  pc = "segmented" =>
    LET W == cfg.slidingWindowSize
        flat == Flatten(windows)
        sizes == WindowSizes(windows)
    IN  /\ \A i \in 1..Len(windows) : sizes[i] >= 1 /\ sizes[i] <= W
        /\ \A i \in 1..(Len(windows) - 1) : sizes[i] = W
        /\ SumSeq(sizes) = Len(input)
        /\ Len(flat) = Len(input)
        /\ \A j \in 1..Len(input) :
             Cardinality({i \in 1..Len(flat) : flat[i] = input[j]}) = 1
        /\ \A i \in 1..(Len(flat) - 1) : flat[i].ts <= flat[i + 1].ts
        /\ (Len(input) = 25 /\ W = 10 => sizes = <<10, 10, 5>>)

C3_Witness ==
  /\ pc = "segmented"
  /\ Len(input) = 25
  /\ cfg.slidingWindowSize = 10
  /\ WindowSizes(windows) = <<10, 10, 5>>
  /\ conversation # input

\* the call k ended in the error branch of askQuestion
TransportFailure(k) == Outcomes[k].o \in {"fetchError", "httpError"}

\* C7: a window whose model call fails with a transport error is retried
\* with exponential back-off until maxRetries attempts have been made, and
\* then yields a degraded non-decision result.
C7_TransportErrorIsRetried ==
  \A w \in 1..Len(hist) :
    (/\ hist[w].calls # <<>>
     /\ \A j \in 1..Len(hist[w].calls) : TransportFailure(hist[w].calls[j]))
    => /\ Len(hist[w].calls) = cfg.maxRetries
       /\ hist[w].sleeps =
            [j \in 1..(cfg.maxRetries - 1) |-> (2 ^ j) * 1000]
       /\ ~hist[w].analysis.isDecision

\* C8: when the reply for a window is not valid JSON, no further call is
\* made for that window; isDecision, confidence and summary are derived from
\* the reply text by the lexical heuristics and the window then goes through
\* the acceptance rule like any other.
C8_ParseFailureUsesHeuristicsAtOnce ==
  \A w \in 1..Len(hist) :
    (/\ hist[w].calls # <<>>
     /\ Outcomes[hist[w].calls[1]].o = "ok"
     /\ ~Outcomes[hist[w].calls[1]].reply.json
     /\ Outcomes[hist[w].calls[1]].reply.text # <<>>)
    => LET text == Outcomes[hist[w].calls[1]].reply.text
           a == hist[w].analysis
       IN  /\ Len(hist[w].calls) = 1
           /\ hist[w].sleeps = <<>>
           /\ a.reasoning = "Parsed from text response"
           /\ a.isDecision = (\/ includes(toLowerCase(text), WordTrue)
                              \/ includes(toLowerCase(text), WordYes)
                              \/ includes(toLowerCase(text), WordDecision))
           /\ a.confidence = ConfidenceOfText(text)
           /\ a.summary = SummaryOfText(text)
           /\ ( (/\ WindowAccepted(w)
                 /\ \A v \in 1..(w - 1) :
                      WindowAccepted(v) =>
                        NormalizedKey(hist[v].analysis.summary)
                          # NormalizedKey(a.summary))
                => \E i \in 1..Len(decisions) :
                     /\ decisions[i].window = w
                     /\ decisions[i].summary = a.summary )

C8_Witness ==
  /\ pc = "done"
  /\ \E w \in 1..Len(hist) :
       /\ Len(hist[w].calls) = 1
       /\ Outcomes[hist[w].calls[1]].o = "ok"
       /\ ~Outcomes[hist[w].calls[1]].reply.json
       /\ hist[w].analysis.confidence = 900
       /\ WindowAccepted(w)
       /\ \E i \in 1..Len(decisions) : decisions[i].window = w

\* C9: a failed analysis of one window does not make the run throw: the
\* later windows are still analysed and the candidates of the other windows
\* are returned in window order.
C9_WindowFailureDoesNotStopTheRun ==
  /\ pc # "thrown"
  /\ pc \in {"loop", "done"} => Len(hist) = widx - 1
  /\ pc = "done" =>
       /\ Len(hist) = Len(windows)
       /\ \A i \in 1..(Len(decisions) - 1) :
            decisions[i].window < decisions[i + 1].window
       /\ \A w \in 1..Len(hist) :
            (/\ ~hist[w].failed
             /\ WindowAccepted(w)
             /\ \A v \in 1..(w - 1) :
                  WindowAccepted(v) =>
                    NormalizedKey(hist[v].analysis.summary)
                      # NormalizedKey(hist[w].analysis.summary))
            => \E i \in 1..Len(decisions) : decisions[i].window = w

C9_Witness ==
  /\ pc = "done"
  /\ \E u, v, w \in 1..Len(hist) :
       /\ u < v
       /\ v < w
       /\ hist[v].failed
       /\ hist[v].calls # <<>>
       /\ \E i, j \in 1..Len(decisions) :
            i < j /\ decisions[i].window = u /\ decisions[j].window = w

\* ------------------------------------------------------------------------
\* Brief Synthesizer: the values the model's replies parse to
\* ------------------------------------------------------------------------
DefaultCitationThreshold == 700
DefaultMaxCitations == 10
DefaultValidationAttempts == 3
RepairIterations == 2

\* x || dflt
OrElse(x, dflt) == IF Falsy(x) THEN dflt ELSE x

\* an array with its items and the length of its JSON text
JList(items, chars) ==
  [t |-> "arr", len |-> Len(items), items |-> items, chars |-> chars]

EmptyList == JList(<<>>, 2)

\* sum of the lengths of the strings of a sequence
RECURSIVE TotalLen(_)
TotalLen(ss) == IF ss = <<>> THEN 0 ELSE Len(Head(ss)) + TotalLen(Tail(ss))

\* ss.join(sep).length
JoinLen(ss, sepLen) ==
  IF ss = <<>> THEN 0 ELSE TotalLen(ss) + sepLen * (Len(ss) - 1)

\* an array of strings
ArrayOfStrings(ss) ==
  JList(ss, 2 + TotalLen(ss) + 2 * Len(ss)
              + (IF ss = <<>> THEN 0 ELSE Len(ss) - 1))

\* an array of source references, each {"type":"conversation","messageId":id}
ArrayOfRefs(ids) ==
  JList(ids, 2 + TotalLen(ids) + 39 * Len(ids)
               + (IF ids = <<>> THEN 0 ELSE Len(ids) - 1))

\* x.length
LengthOf(x) ==
  IF x.t = "arr" THEN JNum(x.len * 1000)
  ELSE IF x.t = "str" THEN JNum(Len(x.v) * 1000)
  ELSE JUndef

\* the object a reply to a brief prompt parses to
BriefObject(title, summary, problem, options, why, people, refs, conf) ==
  [t |-> "obj", title |-> title, decisionSummary |-> summary,
   problem |-> problem, optionsConsidered |-> options, rationale |-> why,
   participants |-> people, sourceReferences |-> refs, confidence |-> conf,
   status |-> JUndef, tags |-> JUndef]

BriefKeys ==
  <<"title", "decisionSummary", "problem", "optionsConsidered", "rationale",
    "participants", "sourceReferences", "confidence", "status", "tags">>

KeyChars ==
  [title |-> 5, decisionSummary |-> 15, problem |-> 7,
   optionsConsidered |-> 17, rationale |-> 9, participants |-> 12,
   sourceReferences |-> 16, confidence |-> 10, status |-> 6, tags |-> 4]

\* the length of the decimal text of a number of thousandths, 0 and up
NumChars(v) ==
  LET whole == v \div 1000
      frac == v % 1000
      wholeChars == IF whole < 10 THEN 1 ELSE IF whole < 100 THEN 2 ELSE 3
  IN  wholeChars + (IF frac = 0 THEN 0
                    ELSE IF frac % 100 = 0 THEN 2
                    ELSE IF frac % 10 = 0 THEN 3
                    ELSE 4)

\* JSON.stringify(x).length of a value that is not an object
ValueChars(x) ==
  IF x.t = "str" THEN Len(x.v) + 2
  ELSE IF x.t = "num" THEN NumChars(x.v)
  ELSE IF x.t = "arr" THEN x.chars
  ELSE IF x.t = "bool" THEN (IF x.v THEN 4 ELSE 5)
  ELSE 4

RECURSIVE MemberChars(_, _)
MemberChars(obj, keys) ==
  IF keys = <<>> THEN 0
  ELSE LET k == Head(keys)
       IN  (IF obj[k].t = "undefined" THEN 0
            ELSE KeyChars[k] + 3 + ValueChars(obj[k]) + 1)
             + MemberChars(obj, Tail(keys))

\* JSON.stringify(x).length
StringifyLength(x) ==
  IF x.t = "obj"
  THEN LET m == MemberChars(x, BriefKeys) IN IF m = 0 THEN 2 ELSE m + 1
  ELSE ValueChars(x)

\* ------------------------------------------------------------------------
\* Brief Synthesizer: RationaleGenerationAgent
\* ------------------------------------------------------------------------
\* the decision candidate the brief is generated for
Candidate ==
  [id |-> "d1", userId |-> "u1", summary |-> SumPostgres, confidence |-> 900]

\* the context a failed extraction leaves: the summary and nothing else
DegradedContext ==
  [problemStatement |-> SumPostgres, constraints |-> <<>>,
   alternativesConsidered |-> <<>>, stakeholders |-> <<>>, evidence |-> <<>>]

RichContext ==
  [problemStatement |-> Rep("p", 40), constraints |-> <<Rep("c", 20)>>,
   alternativesConsidered |-> <<<<"P", "o", "s", "t", "g", "r", "e", "s">>, <<"M", "y", "S", "Q", "L">>>>,
   stakeholders |-> <<<<"A", "n", "a">>>>,
   evidence |-> << [id |-> <<"m", "1">>, content |-> Rep("e", 60)],
                   [id |-> <<"m", "2">>, content |-> Rep("f", 60)] >>]

SynthContexts == {DegradedContext, RichContext}

SynthConfigs ==
  [citationThreshold : {DefaultCitationThreshold},
   hallucinationCheckEnabled : BOOLEAN,
   maxCitations : {1, DefaultMaxCitations},
   enableRepair : BOOLEAN,
   validationAttempts : {0, 1, DefaultValidationAttempts}]

TextHereIsTheBrief == <<"H", "e", "r", "e", " ", "i", "s", " ", "t", "h", "e",
                        " ", "b", "r", "i", "e", "f">>
TextPending == <<"p", "e", "n", "d", "i", "n", "g">>
TextProblemNotSpecified == <<"P", "r", "o", "b", "l", "e", "m", " ", "n", "o",
                             "t", " ", "s", "p", "e", "c", "i", "f", "i", "e",
                             "d">>
TextRationaleNotAvailable == <<"R", "a", "t", "i", "o", "n", "a", "l", "e",
                               " ", "n", "o", "t", " ", "a", "v", "a", "i",
                               "l", "a", "b", "l", "e">>
TextFallbackBrief == <<"R", "a", "t", "i", "o", "n", "a", "l", "e", " ", "n",
                       "o", "t", " ", "a", "v", "a", "i", "l", "a", "b", "l",
                       "e", " ", "-", " ", "f", "a", "l", "l", "b", "a", "c",
                       "k", " ", "b", "r", "i", "e", "f">>
TextLimitedContext ==
  <<"D", "e", "c", "i", "s", "i", "o", "n", " ", "r", "a", "t", "i", "o", "n",
    "a", "l", "e", " ", "g", "e", "n", "e", "r", "a", "t", "e", "d", " ", "w",
    "i", "t", "h", " ", "l", "i", "m", "i", "t", "e", "d", " ", "c", "o", "n",
    "t", "e", "x", "t">>

\* a reply that meets the schema, and replies that miss it in one place
GoodBrief ==
  BriefObject(JStr(Rep("t", 20)), JStr(Rep("s", 20)), JStr(Rep("p", 30)),
              ArrayOfStrings(<<<<"P", "o", "s", "t", "g", "r", "e", "s">>, <<"M", "y", "S", "Q", "L">>>>),
              JStr(Rep("r", 30)), ArrayOfStrings(<<<<"A", "n", "a">>>>),
              ArrayOfRefs(<< <<"m", "1">> >>), JNum(900))

SynthReplyValues ==
  << JNull,
     GoodBrief,
     [GoodBrief EXCEPT !.sourceReferences = JUndef],
     [GoodBrief EXCEPT !.sourceReferences = EmptyList],
     [GoodBrief EXCEPT !.sourceReferences = ArrayOfRefs(<< <<"m", "9">> >>)],
     [GoodBrief EXCEPT !.optionsConsidered = EmptyList],
     [GoodBrief EXCEPT !.rationale = JStr(Rep("r", 900))],
     [GoodBrief EXCEPT !.confidence = JUndef],
     [GoodBrief EXCEPT !.confidence = JNum(1500)],
     [GoodBrief EXCEPT !.title = JStr(<<>>), !.decisionSummary = JStr(<<>>)] >>

\* what one call of the language model can do for a brief prompt
SynthOutcomes ==
  << [o |-> "fetchError", reply |-> TextReply(<<>>)],
     [o |-> "ok", reply |-> TextReply(TextHereIsTheBrief)] >>
    \o [i \in 1..Len(SynthReplyValues) |->
          [o |-> "ok", reply |-> JsonReply(SynthReplyValues[i], <<>>)]]

SynthOutcomeIds == 1..Len(SynthOutcomes)

\* the object parseRationaleResponse makes up for a reply that is not JSON
TextRationale ==
  [BriefObject(JUndef,
               JStr(<<"D", "e", "c", "i", "s", "i", "o", "n", " ", "r", "a",
                      "t", "i", "o", "n", "a", "l", "e", " ", "g", "e", "n",
                      "e", "r", "a", "t", "e", "d">>),
               JStr(TextProblemNotSpecified), EmptyList,
               JStr(<<"R", "a", "t", "i", "o", "n", "a", "l", "e", " ", "g",
                      "e", "n", "e", "r", "a", "t", "e", "d", " ", "f", "r",
                      "o", "m", " ", "t", "e", "x", "t", " ", "r", "e", "s",
                      "p", "o", "n", "s", "e">>),
               EmptyList, EmptyList, JNum(500))
     EXCEPT !.status = JStr(TextPending), !.tags = EmptyList]

parseRationaleResponse(response) ==
  IF response.json THEN response.value ELSE TextRationale

\* generateInitialRationale: one model call and the parse of its reply
generateInitialRationale(outcome, decision, ctx) ==
  LET r == askQuestion(outcome)
  IN  IF ~r.threw THEN parseRationaleResponse(r.response)
      ELSE [BriefObject(JUndef, JStr(decision.summary),
                        OrElse(JStr(ctx.problemStatement),
                               JStr(TextProblemNotSpecified)),
                        ArrayOfStrings(ctx.alternativesConsidered),
                        JStr(TextLimitedContext),
                        ArrayOfStrings(ctx.stakeholders), EmptyList,
                        JNum(500))
              EXCEPT !.status = JStr(TextPending), !.tags = EmptyList]

\* repairRationale: one model call and the parse of its reply
repairRationale(outcome, rationale_) ==
  LET r == askQuestion(outcome)
  IN  IF ~r.threw THEN parseRationaleResponse(r.response) ELSE rationale_

\* contextText.length in checkForHallucinations
ContextTextLength(ctx) ==
  70 + Len(ctx.problemStatement) + JoinLen(ctx.constraints, 2)
     + JoinLen(ctx.alternativesConsidered, 2) + JoinLen(ctx.stakeholders, 2)
     + JoinLen([i \in 1..Len(ctx.evidence) |-> ctx.evidence[i].content], 1)

checkForHallucinations(rationale_, ctx) ==
  IF StringifyLength(rationale_) > ContextTextLength(ctx) * 3
  THEN <<"Rationale appears to contain excessive information not in context">>
  ELSE <<>>

checkCitations(rationale_) ==
  (IF ToBoolean(rationale_.rationale) /\ Falsy(rationale_.sourceReferences)
   THEN <<"Rationale lacks source references">> ELSE <<>>)
    \o (IF /\ ToBoolean(rationale_.sourceReferences)
           /\ LengthOf(rationale_.sourceReferences) = JNum(0)
        THEN <<"No source references provided">> ELSE <<>>)

\* validateRationale; reading a property of null throws a TypeError
validateRationale(rationale_, ctx, config) ==
  IF rationale_.t \in {"null", "undefined"}
  THEN [threw |-> TRUE, validation |-> NoValue]
  ELSE IF ~config.hallucinationCheckEnabled
  THEN [threw |-> FALSE,
        validation |->
          [valid |-> TRUE, errors |-> <<>>, hallucinations |-> <<>>,
           missingCitations |-> <<>>,
           confidence |-> OrElse(rationale_.confidence, JNum(500)).v]]
  ELSE
    LET hallucinations == checkForHallucinations(rationale_, ctx)
        missingCitations == checkCitations(rationale_)
        errors ==
          (IF Len(hallucinations) > 0
           THEN <<"Hallucinations detected in rationale">> ELSE <<>>)
            \o (IF Len(missingCitations) > 0
                THEN <<"Missing citations for factual claims">> ELSE <<>>)
        c0 == OrElse(rationale_.confidence, JNum(500)).v
        c1 == IF Len(hallucinations) > 0 THEN (c0 * 5) \div 10 ELSE c0
        c2 == IF Len(missingCitations) > 0 THEN (c1 * 8) \div 10 ELSE c1
    IN  [threw |-> FALSE,
         validation |->
           [valid |-> Len(errors) = 0 /\ c2 >= config.citationThreshold,
            errors |-> errors, hallucinations |-> hallucinations,
            missingCitations |-> missingCitations, confidence |-> c2]]

buildDecisionBrief(decision, rationale_, validation_) ==
  [decisionSummary |-> OrElse(rationale_.decisionSummary,
                              JStr(decision.summary)),
   problem |-> OrElse(rationale_.problem, JStr(TextProblemNotSpecified)),
   optionsConsidered |-> OrElse(rationale_.optionsConsidered, EmptyList),
   rationale |-> OrElse(rationale_.rationale,
                        JStr(TextRationaleNotAvailable)),
   participants |-> OrElse(rationale_.participants, EmptyList),
   sourceReferences |-> OrElse(rationale_.sourceReferences, EmptyList),
   confidence |-> validation_.confidence,
   status |-> OrElse(rationale_.status, JStr(TextPending)),
   tags |-> OrElse(rationale_.tags, EmptyList),
   decisionCandidateId |-> decision.id,
   userId |-> decision.userId]

\* extractCitations: the messageId of every citation, in order
extractCitations(rationale_, ctx, config) ==
  LET refs == IF ToBoolean(rationale_.sourceReferences)
              THEN rationale_.sourceReferences.items ELSE <<>>
      shown == SubSeq(ctx.evidence, 1,
                      Min(Len(ctx.evidence), config.maxCitations))
      ids == [i \in 1..Len(shown) |-> shown[i].id]
  IN  refs \o SelectSeq(ids, LAMBDA id :
                               \A j \in 1..Len(refs) : refs[j] # id)

buildFallbackBrief(decision) ==
  [decisionSummary |-> JStr(decision.summary),
   problem |-> JStr(TextProblemNotSpecified),
   optionsConsidered |-> EmptyList,
   rationale |-> JStr(TextFallbackBrief),
   participants |-> EmptyList,
   sourceReferences |-> EmptyList,
   confidence |-> 500,
   status |-> JStr(TextPending),
   tags |-> EmptyList,
   decisionCandidateId |-> decision.id,
   userId |-> decision.userId]

\* what the catch of generateRationale returns
FailedGeneration(decision) ==
  [brief |-> buildFallbackBrief(decision),
   validation |-> [valid |-> FALSE, errors |-> <<"Generation failed">>,
                   hallucinations |-> <<>>, missingCitations |-> <<>>,
                   confidence |-> 0],
   citations |-> <<>>]

\* as RepairNeeded, but the loop runs once more than validationAttempts
RepairNeededOnceMore(config, validation_, attempts) ==
  /\ config.enableRepair
  /\ ~validation_.valid
  /\ attempts <= config.validationAttempts

\* the condition of the while loop of generateRationale
RepairNeeded(config, validation_, attempts) ==
  /\ config.enableRepair
  /\ ~validation_.valid
  /\ attempts < config.validationAttempts

\* generateRationale from the validation of a rationale to the next model
\* call or to the return
AfterRationale(newRationale, attempts) ==
  LET v == validateRationale(newRationale, context, rcfg)
  IN  /\ rationale' = newRationale
      /\ repairAttempts' = attempts
      /\ IF v.threw
         THEN /\ validation' = validation
              /\ result' = FailedGeneration(Candidate)
              /\ rpc' = "done"
         ELSE /\ validation' = v.validation
              /\ IF RepairNeeded(rcfg, v.validation, attempts)
                 THEN /\ rpc' = "repair"
                      /\ result' = result
                 ELSE /\ rpc' = "done"
                      /\ result' =
                           [brief |-> buildDecisionBrief(Candidate,
                                        newRationale, v.validation),
                            validation |-> v.validation,
                            citations |-> extractCitations(newRationale,
                                            context, rcfg)]

\* generateRationale up to the end of the first validation
GenerateInitial ==
  /\ rpc = "start"
  /\ \E k \in SynthOutcomeIds :
       /\ AfterRationale(
            generateInitialRationale(SynthOutcomes[k], Candidate, context), 0)
       /\ allInvalid' = ~askQuestion(SynthOutcomes[k]).response.json
  /\ llmCalls' = 1
  /\ UNCHANGED <<rcfg, context, fpc, parsed, attempt, lastErrors, briefResult,
                 briefReplies>>
  /\ UNCHANGED outsideSynth

\* one pass of the while loop of generateRationale
Repair ==
  /\ rpc = "repair"
  /\ \E k \in SynthOutcomeIds :
       /\ AfterRationale(repairRationale(SynthOutcomes[k], rationale),
                         repairAttempts + 1)
       /\ allInvalid' =
            (allInvalid /\ ~askQuestion(SynthOutcomes[k]).response.json)
  /\ llmCalls' = llmCalls + 1
  /\ UNCHANGED <<rcfg, context, fpc, parsed, attempt, lastErrors, briefResult,
                 briefReplies>>
  /\ UNCHANGED outsideSynth

\* ------------------------------------------------------------------------
\* Brief Synthesizer: DecisionBriefService.generateFromCandidate
\* ------------------------------------------------------------------------
\* x is missing or x.length === 0
MissingOrEmpty(x) == Falsy(x) \/ LengthOf(x) = JNum(0)

validateDecisionBrief(brief) ==
  LET errors ==
        (IF MissingOrEmpty(brief.title)
         THEN <<"title is required">> ELSE <<>>)
          \o (IF MissingOrEmpty(brief.problem)
              THEN <<"problem is required">> ELSE <<>>)
          \o (IF MissingOrEmpty(brief.optionsConsidered)
              THEN <<"optionsConsidered must have at least 1 option">>
              ELSE <<>>)
          \o (IF MissingOrEmpty(brief.rationale)
              THEN <<"rationale is required">> ELSE <<>>)
          \o (IF MissingOrEmpty(brief.participants)
              THEN <<"participants must include at least 1 person">>
              ELSE <<>>)
          \o (IF /\ ToBoolean(brief.sourceReferences)
                 /\ LengthOf(brief.sourceReferences) = JNum(0)
              THEN <<"sourceReferences must have at least 1 source">>
              ELSE <<>>)
          \o (IF \/ brief.confidence.t # "num"
                 \/ brief.confidence.v < 0
                 \/ brief.confidence.v > 1000
              THEN <<"confidence must be a number between 0 and 1">>
              ELSE <<>>)
  IN  [valid |-> Len(errors) = 0, errors |-> errors]

tryParseCandidateResponse(response) ==
  IF response.json THEN response.value ELSE JNull

\* the return of a brief that passed validateDecisionBrief
ValidBrief(brief, decision) ==
  [brief |-> [brief EXCEPT !.confidence =
                IF brief.confidence.t = "num" THEN brief.confidence
                ELSE JNum(decision.confidence)],
   valid |-> TRUE, errors |-> <<>>]

\* generateFromCandidate up to the head of the repair loop
AskBrief ==
  /\ fpc = "start"
  /\ \E k \in SynthOutcomeIds :
       LET raw == askQuestion(SynthOutcomes[k]).response
       IN  /\ parsed' = tryParseCandidateResponse(raw)
           /\ briefReplies' = <<tryParseCandidateResponse(raw)>>
           /\ allInvalid' = ~raw.json
  /\ attempt' = 0
  /\ lastErrors' = <<>>
  /\ llmCalls' = 1
  /\ fpc' = "loop"
  /\ UNCHANGED <<rcfg, context, rpc, rationale, validation, repairAttempts,
                 result, briefResult>>
  /\ UNCHANGED outsideSynth

\* one iteration of the repair loop of generateFromCandidate
RepairBrief ==
  /\ fpc = "loop"
  /\ attempt < RepairIterations
  /\ IF ToBoolean(parsed)
     THEN LET v == validateDecisionBrief(parsed)
          IN  IF v.valid
              THEN /\ briefResult' = ValidBrief(parsed, Candidate)
                   /\ fpc' = "done"
                   /\ UNCHANGED <<parsed, attempt, lastErrors, llmCalls,
                                  allInvalid, briefReplies>>
              ELSE \E k \in SynthOutcomeIds :
                     LET repaired == askQuestion(SynthOutcomes[k]).response
                     IN  /\ lastErrors' = v.errors
                         /\ parsed' = tryParseCandidateResponse(repaired)
                         /\ briefReplies' =
                              Append(briefReplies,
                                     tryParseCandidateResponse(repaired))
                         /\ allInvalid' = (allInvalid /\ ~repaired.json)
                         /\ llmCalls' = llmCalls + 1
                         /\ attempt' = attempt + 1
                         /\ UNCHANGED <<fpc, briefResult>>
     ELSE \E k \in SynthOutcomeIds :
            LET repaired == askQuestion(SynthOutcomes[k]).response
                p == tryParseCandidateResponse(repaired)
                v == validateDecisionBrief(p)
            IN  /\ parsed' = p
                /\ briefReplies' = Append(briefReplies, p)
                /\ allInvalid' = (allInvalid /\ ~repaired.json)
                /\ llmCalls' = llmCalls + 1
                /\ IF ToBoolean(p) /\ v.valid
                   THEN /\ briefResult' = ValidBrief(p, Candidate)
                        /\ fpc' = "done"
                        /\ UNCHANGED <<attempt, lastErrors>>
                   ELSE /\ lastErrors' =
                             IF ToBoolean(p) THEN v.errors ELSE lastErrors
                        /\ attempt' = attempt + 1
                        /\ UNCHANGED <<fpc, briefResult>>
  /\ UNCHANGED <<rcfg, context, rpc, rationale, validation, repairAttempts,
                 result>>
  /\ UNCHANGED outsideSynth

\* generateFromCandidate when the repair iterations are used up
GiveUpBrief ==
  /\ fpc = "loop"
  /\ ~(attempt < RepairIterations)
  /\ briefResult' =
       [brief |-> parsed, valid |-> FALSE,
        errors |-> IF Len(lastErrors) > 0 THEN lastErrors
                   ELSE <<"Model did not return valid JSON or conformed object.">>]
  /\ fpc' = "done"
  /\ UNCHANGED <<rcfg, context, rpc, rationale, validation, repairAttempts,
                 result, parsed, attempt, lastErrors, llmCalls, allInvalid,
                 briefReplies>>
  /\ UNCHANGED outsideSynth

\* ------------------------------------------------------------------------
\* SpecSynth: one brief generation, by either of the two generators
\* ------------------------------------------------------------------------
InitSynth ==
  /\ OutsideSynthIdle
  /\ rcfg \in SynthConfigs
  /\ context \in SynthContexts
  /\ \/ rpc = "start" /\ fpc = "idle"
     \/ rpc = "idle" /\ fpc = "start"
  /\ rationale = NoValue
  /\ validation = NoValue
  /\ repairAttempts = 0
  /\ llmCalls = 0
  /\ allInvalid = TRUE
  /\ result = NoValue
  /\ parsed = NoValue
  /\ attempt = 0
  /\ lastErrors = <<>>
  /\ briefResult = NoValue
  /\ briefReplies = <<>>

NextSynth ==
  GenerateInitial \/ Repair \/ AskBrief \/ RepairBrief \/ GiveUpBrief

SpecSynth == InitSynth /\ [][NextSynth]_vars

\* ------------------------------------------------------------------------
\* Properties of the Brief Synthesizer
\* ------------------------------------------------------------------------
NonEmptyString(x) == x.t = "str" /\ x.v # <<>>

AtLeastOne(x) == x.t = "arr" /\ x.len >= 1

\* C4: whenever brief generation returns a result marked valid
\* (validation.valid from generateRationale, valid from
\* generateFromCandidate), the brief has a non-empty title, a non-empty
\* problem, at least one option considered, a non-empty rationale, at least
\* one participant, at least one source reference and a confidence in [0,1].
C4_ValidResultMeetsTheBriefSchema ==
  /\ (rpc = "done" /\ result.validation.valid) =>
       LET b == result.brief
       IN  /\ NonEmptyString(b.decisionSummary)
           /\ NonEmptyString(b.problem)
           /\ AtLeastOne(b.optionsConsidered)
           /\ NonEmptyString(b.rationale)
           /\ AtLeastOne(b.participants)
           /\ AtLeastOne(b.sourceReferences)
           /\ b.confidence \in 0..1000
  /\ (fpc = "done" /\ briefResult.valid) =>
       LET b == briefResult.brief
       IN  /\ NonEmptyString(b.title)
           /\ NonEmptyString(b.problem)
           /\ AtLeastOne(b.optionsConsidered)
           /\ NonEmptyString(b.rationale)
           /\ AtLeastOne(b.participants)
           /\ AtLeastOne(b.sourceReferences)
           /\ b.confidence.t = "num"
           /\ b.confidence.v \in 0..1000

\* C5: for one candidate generateRationale makes at most
\* validationAttempts + 1 model calls, one initial generation and at most
\* validationAttempts repairs, and while it still waits for a repair it has
\* made at most validationAttempts of them, so that it returns; this also
\* when every reply is invalid JSON.
C5_AtMostValidationAttemptsPlusOneCalls ==
  rpc # "idle" =>
    /\ llmCalls <= rcfg.validationAttempts + 1
    /\ repairAttempts <= rcfg.validationAttempts
    /\ rpc = "repair" => llmCalls <= rcfg.validationAttempts
    /\ rpc \in {"repair", "done"} => llmCalls = repairAttempts + 1

C5_Witness ==
  /\ rpc = "done"
  /\ allInvalid
  /\ rcfg.validationAttempts = DefaultValidationAttempts
  /\ llmCalls = DefaultValidationAttempts + 1
  /\ repairAttempts = DefaultValidationAttempts

\* C6: when every reply of the model is invalid JSON, generateRationale
\* returns the fallback brief (summary taken from the candidate, no options,
\* no citations, a rationale marked as degraded) and flags it invalid.
C6_InvalidJsonYieldsFlaggedFallbackBrief ==
  (rpc = "done" /\ allInvalid) =>
    /\ ~result.validation.valid
    /\ result.brief.decisionSummary = JStr(Candidate.summary)
    /\ result.brief.optionsConsidered.len = 0
    /\ result.brief.sourceReferences.len = 0
    /\ result.citations = <<>>
    /\ result.brief.rationale \in
         {JStr(TextFallbackBrief), TextRationale.rationale}

\* ------------------------------------------------------------------------
\* Context Extractor: ContextExtractionAgent.extractContextForDecision
\* ------------------------------------------------------------------------
\* a ConversationEvent whose timestamp is a Date; NaN is the Invalid Date
Timestamps == (1..MaxTs) \cup {NaN}

ContextConversations ==
  UNION {{[i \in 1..n |-> Message(i, f[i])] : f \in [1..n -> Timestamps]} :
           n \in 0..MaxMsgs}

ContextConfigs ==
  [enableSemanticSearch : BOOLEAN, includeRelatedDecisions : BOOLEAN]

\* a hit of the semantic index
Hit(id, score) == [id |-> id, text |-> Rep("h", 5), score |-> score]

\* what a search of the semantic index can do: throw, or return its hits
SearchOutcomes ==
  << [threw |-> TRUE, hits |-> <<>>],
     [threw |-> FALSE, hits |-> <<>>],
     [threw |-> FALSE, hits |-> <<Hit("c1", 300), Hit("c2", 800)>>] >>

SearchOutcomeIds == 1..Len(SearchOutcomes)

ToEvidence(hits, type) ==
  [i \in 1..Len(hits) |->
     [id |-> hits[i].id, type |-> type, content |-> hits[i].text,
      relevance |-> hits[i].score]]

InsertByRelevance(sorted, e) ==
  LET before == {i \in 1..Len(sorted) : sorted[i].relevance >= e.relevance}
      k == IF before = {} THEN 0
           ELSE CHOOSE i \in before : \A j \in before : j <= i
  IN  SubSeq(sorted, 1, k) \o <<e>> \o SubSeq(sorted, k + 1, Len(sorted))

\* evidence.sort((a, b) => b.relevance - a.relevance)
RECURSIVE SortByRelevance(_)
SortByRelevance(es) ==
  IF es = <<>> THEN <<>>
  ELSE InsertByRelevance(SortByRelevance(SubSeq(es, 1, Len(es) - 1)),
                         es[Len(es)])

\* searchForEvidence: a search that throws leaves what was found before it
searchForEvidence(config, conv, dec) ==
  LET first == IF config.enableSemanticSearch THEN conv
               ELSE [threw |-> FALSE, hits |-> <<>>]
      second == IF config.includeRelatedDecisions THEN dec
                ELSE [threw |-> FALSE, hits |-> <<>>]
  IN  IF first.threw THEN <<>>
      ELSE IF second.threw THEN ToEvidence(first.hits, "conversation")
      ELSE SortByRelevance(ToEvidence(first.hits, "conversation")
                             \o ToEvidence(second.hits, "decision_brief"))

\* buildContextExtractionPrompt: msg.timestamp.toISOString() throws a
\* RangeError on an Invalid Date
buildContextExtractionPrompt(conv) ==
  [threw |-> \E i \in 1..Len(conv) : conv[i].ts = NaN]

\* the object a reply to the context prompt parses to
ContextObject(problemStatement, constraints, evidence_, confidence) ==
  [t |-> "obj", problemStatement |-> problemStatement,
   constraints |-> constraints, alternativesConsidered |-> JUndef,
   stakeholders |-> ArrayOfStrings(<<<<"A", "n", "a">>>>), evidence |-> evidence_,
   relatedDecisions |-> JUndef, confidence |-> confidence]

EvidenceItem(id, relevance) ==
  [t |-> "obj", id |-> JStr(id), content |-> JStr(Rep("e", 5)),
   relevance |-> relevance]

ContextOutcomes ==
  << [o |-> "fetchError", reply |-> TextReply(<<>>)],
     [o |-> "ok", reply |-> TextReply(TextHereIsTheBrief)],
     [o |-> "ok", reply |-> JsonReply(JNull, TextNull)],
     [o |-> "ok", reply |->
        JsonReply(ContextObject(JStr(Rep("p", 8)),
                                ArrayOfStrings(<<Rep("c", 4)>>),
                                JList(<<EvidenceItem(<<"e", "1">>, JNum(900))>>,
                                      0),
                                JNum(800)), <<>>)],
     [o |-> "ok", reply |->
        JsonReply(ContextObject(JUndef, JStr(Rep("c", 4)), JUndef, JUndef),
                  <<>>)],
     [o |-> "ok", reply |->
        JsonReply(ContextObject(JStr(Rep("p", 8)), JUndef,
                                JList(<<EvidenceItem(<<"e", "1">>, JUndef),
                                        JNull>>, 0),
                                JNum(800)), <<>>)] >>

ContextOutcomeIds == 1..Len(ContextOutcomes)

\* Array.isArray(x) ? x : []
ArrayOrEmpty(x) == IF x.t = "arr" THEN x.items ELSE <<>>

\* the context both fallbacks spell out
FallbackContext(decision) ==
  [decisionId |-> decision.id, problemStatement |-> decision.summary,
   constraints |-> <<>>, alternativesConsidered |-> <<>>,
   stakeholders |-> <<>>, evidence |-> <<>>, relatedDecisions |-> <<>>,
   confidence |-> 500]

\* the try block of parseContextResponse throws: JSON.parse on a reply that
\* is not JSON, a TypeError on reading a property of null
ParseThrows(response) ==
  \/ ~response.json
  \/ response.value.t = "null"
  \/ LET es == ArrayOrEmpty(response.value.evidence)
     IN  \E i \in 1..Len(es) : es[i].t = "null"

\* parseContextResponse: its catch reads the undeclared name decision, a
\* ReferenceError that leaves the method
parseContextResponse(response, decisionId) ==
  IF ParseThrows(response) THEN [threw |-> TRUE, context |-> NoValue]
  ELSE
    LET p == response.value
        es == ArrayOrEmpty(p.evidence)
    IN  [threw |-> FALSE,
         context |->
           [decisionId |-> decisionId,
            problemStatement |-> StringOrEmpty(p.problemStatement),
            constraints |-> ArrayOrEmpty(p.constraints),
            alternativesConsidered |-> ArrayOrEmpty(p.alternativesConsidered),
            stakeholders |-> ArrayOrEmpty(p.stakeholders),
            evidence |->
              [i \in 1..Len(es) |->
                 [id |-> OrElse(es[i].id, JStr(<<"u", "u", "i", "d">>)).v,
                  type |-> "conversation",
                  content |-> StringOrEmpty(es[i].content),
                  relevance |-> NumberOr(es[i].relevance, 0)]],
            relatedDecisions |-> ArrayOrEmpty(p.relatedDecisions),
            confidence |-> NumberOr(p.confidence, 500)]]

\* extractStructuredContext once the prompt is built: the model call, the
\* parse, and the fallback context when either throws
extractStructuredContext(outcome, decision) ==
  LET r == askQuestion(outcome)
      c == parseContextResponse(r.response, decision.id)
  IN  IF r.threw \/ c.threw THEN FallbackContext(decision) ELSE c.context

\* extractContextForDecision up to the model call: the evidence search and
\* the building of the prompt, whose exception the catch logs and rethrows
SearchEvidence ==
  /\ xpc = "start"
  /\ \E i, j \in SearchOutcomeIds :
       evidence' = searchForEvidence(xcfg, SearchOutcomes[i],
                                     SearchOutcomes[j])
  /\ IF buildContextExtractionPrompt(xconversation).threw
     THEN /\ xpc' = "done"
          /\ xresult' = [threw |-> TRUE, context |-> NoValue]
     ELSE /\ xpc' = "asking"
          /\ xresult' = xresult
  /\ UNCHANGED <<xcfg, xconversation, xreply>>
  /\ UNCHANGED outsideContext

\* the rest of extractContextForDecision: the model call and the return
ExtractStructured ==
  /\ xpc = "asking"
  /\ \E k \in ContextOutcomeIds :
       /\ xreply' = k
       /\ xresult' =
            [threw |-> FALSE,
             context |-> extractStructuredContext(ContextOutcomes[k],
                                                  Candidate)]
  /\ xpc' = "done"
  /\ UNCHANGED <<xcfg, xconversation, evidence>>
  /\ UNCHANGED outsideContext

\* ------------------------------------------------------------------------
\* SpecContext: one extraction of the context of a candidate
\* ------------------------------------------------------------------------
InitContext ==
  /\ OutsideContextIdle
  /\ xcfg \in ContextConfigs
  /\ xconversation \in ContextConversations
  /\ xpc = "start"
  /\ evidence = <<>>
  /\ xreply = 0
  /\ xresult = NoValue

NextContext == SearchEvidence \/ ExtractStructured

SpecContext == InitContext /\ [][NextContext]_vars

\* ------------------------------------------------------------------------
\* Properties of the Context Extractor
\* ------------------------------------------------------------------------
\* the reply of the model call of the extraction could not be parsed
ReplyUnparseable ==
  /\ xreply \in ContextOutcomeIds
  /\ ParseThrows(askQuestion(ContextOutcomes[xreply]).response)

\* C10: extractContextForDecision never passes an exception on to its
\* caller, and when the reply of the model cannot be parsed it returns the
\* degraded context: the candidate summary as problemStatement, empty
\* collections, confidence 0.5.
C10_ExtractionNeverThrowsAndDegradesOnParseFailure ==
  xpc = "done" =>
    /\ ~xresult.threw
    /\ ReplyUnparseable =>
         /\ xresult.context.problemStatement = Candidate.summary
         /\ xresult.context.constraints = <<>>
         /\ xresult.context.alternativesConsidered = <<>>
         /\ xresult.context.stakeholders = <<>>
         /\ xresult.context.evidence = <<>>
         /\ xresult.context.relatedDecisions = <<>>
         /\ xresult.context.confidence = 500

\* ------------------------------------------------------------------------
\* Retrieval: AdvancedRetrievalService
\* ------------------------------------------------------------------------
MaxTokens == 2

DefaultDecisionThreshold == 400
DefaultConversationThreshold == 300
DefaultMaxResults == 15

RetrievalConfigs ==
  [decisionThreshold : {DefaultDecisionThreshold},
   conversationThreshold : {DefaultConversationThreshold},
   maxResults : {2, DefaultMaxResults},
   enableReranking : BOOLEAN,
   enableAnswerGeneration : BOOLEAN]

\* a SearchResult; timestampIsDate tells whether metadata.timestamp is a Date
\* or the string the vector store kept of it
SearchHit(id, score, timestampIsDate) ==
  [id |-> id, score |-> score, timestampIsDate |-> timestampIsDate]

\* what SemanticIndexingService.searchDecisions can do
DecisionSearches ==
  << [threw |-> TRUE, hits |-> <<>>],
     [threw |-> FALSE, hits |-> <<>>],
     [threw |-> FALSE,
      hits |-> <<SearchHit("d1", 900, TRUE), SearchHit("d2", 500, TRUE)>>],
     [threw |-> FALSE, hits |-> <<SearchHit("d1", 900, TRUE)>>],
     [threw |-> FALSE, hits |-> <<SearchHit("d3", 300, TRUE)>>] >>

\* what SemanticIndexingService.searchConversations can do
ConversationSearches ==
  << [threw |-> TRUE, hits |-> <<>>],
     [threw |-> FALSE, hits |-> <<>>],
     [threw |-> FALSE,
      hits |-> <<SearchHit("c1", 600, TRUE), SearchHit("c2", 200, TRUE)>>],
     [threw |-> FALSE, hits |-> <<SearchHit("c3", 950, FALSE)>>] >>

\* id.localeCompare: the place of an id in the order of the ids
IdRank == [c1 |-> 1, c2 |-> 2, c3 |-> 3, d1 |-> 4, d2 |-> 5, d3 |-> 6]

\* the DecisionBrief made of a decision hit; score is the search score
DecisionItem(r) ==
  [id |-> r.id, kind |-> "decision", confidence |-> JNum(r.score),
   score |-> r.score, timestampIsDate |-> TRUE]

\* the ConversationEvent made of a conversation hit: it has no confidence
\* property; score remembers the search score of the hit
ConversationItem(r) ==
  [id |-> r.id, kind |-> "conversation", confidence |-> JUndef,
   score |-> r.score, timestampIsDate |-> r.timestampIsDate]

\* 'confidence' in a ? a.confidence : 1.0
SortConfidence(a) ==
  IF a.confidence.t # "undefined" THEN a.confidence.v ELSE 1000

InsertByConfidence(sorted, a) ==
  LET before == {i \in 1..Len(sorted) :
                   SortConfidence(sorted[i]) >= SortConfidence(a)}
      k == IF before = {} THEN 0
           ELSE CHOOSE i \in before : \A j \in before : j <= i
  IN  SubSeq(sorted, 1, k) \o <<a>> \o SubSeq(sorted, k + 1, Len(sorted))

\* results.sort((a, b) => confidenceB - confidenceA)
RECURSIVE SortByConfidence(_)
SortByConfidence(rs) ==
  IF rs = <<>> THEN <<>>
  ELSE InsertByConfidence(SortByConfidence(SubSeq(rs, 1, Len(rs) - 1)),
                          rs[Len(rs)])

combineAndFilterResults(decisionHits, conversationHits, config) ==
  LET ds == SelectSeq(decisionHits,
                      LAMBDA r : r.score >= config.decisionThreshold)
      cs == SelectSeq(conversationHits,
                      LAMBDA r : r.score >= config.conversationThreshold)
      results == [i \in 1..Len(ds) |-> DecisionItem(ds[i])]
                   \o [i \in 1..Len(cs) |-> ConversationItem(cs[i])]
      sorted == SortByConfidence(results)
  IN  SubSeq(sorted, 1, Min(config.maxResults, Len(sorted)))

\* a JSON array of result ids
IdArray(ids) == [t |-> "arr", len |-> Len(ids), items |-> ids]

\* what the model call of rerankResults can do
RerankOutcomes ==
  << [o |-> "fetchError", reply |-> TextReply(<<>>)],
     [o |-> "ok", reply |-> TextReply(TextHereIsTheBrief)],
     [o |-> "ok", reply |-> JsonReply(JNull, TextNull)],
     [o |-> "ok", reply |-> JsonReply(JNum(3000), <<>>)],
     [o |-> "ok", reply |-> JsonReply(IdArray(<<>>), <<>>)],
     [o |-> "ok", reply |-> JsonReply(IdArray(<<"c1", "d2", "d1">>), <<>>)],
     [o |-> "ok", reply |-> JsonReply(IdArray(<<"d2">>), <<>>)],
     [o |-> "ok", reply |-> JsonReply(IdArray(<<"zz", "c1">>), <<>>)],
     [o |-> "ok", reply |-> JsonReply(IdArray(<<"d1", "d1">>), <<>>)] >>

RerankOutcomeIds == 1..Len(RerankOutcomes)

\* resultMap.get(id) is defined
Known(results, id) == \E i \in 1..Len(results) : results[i].id = id

\* resultMap.get(id): a Map keeps the last entry of a key
Lookup(results, id) ==
  LET at == {i \in 1..Len(results) : results[i].id = id}
  IN  results[CHOOSE i \in at : \A j \in at : j <= i]

\* as Reorder, but without the results the reply did not name
ReorderNamedOnly(results, rerankedIds) ==
  LET named == SelectSeq(rerankedIds, LAMBDA id : Known(results, id))
  IN  [i \in 1..Len(named) |-> Lookup(results, named[i])]

\* rerankResults after the parse: the results the reply names, in its
\* order, then the results it did not name
Reorder(results, rerankedIds) ==
  LET named == SelectSeq(rerankedIds, LAMBDA id : Known(results, id))
      rerankedResults == [i \in 1..Len(named) |-> Lookup(results, named[i])]
  IN  rerankedResults
        \o SelectSeq(results, LAMBDA r : ~Known(rerankedResults, r.id))

\* rerankResults with its model call; a reply that is not JSON returns the
\* results as they are, and so does the TypeError of forEach on a JSON
\* value that is not an array
rerankResults(outcome, results) ==
  LET response == askQuestion(outcome).response
  IN  IF ~response.json THEN results
      ELSE IF response.value.t # "arr" THEN results
      ELSE Reorder(results, response.value.items)

\* the pieces an answer of the model is put together from
AnswerTokens ==
  << <<"[", "1", "]">>, <<"[", "2", "]">>, <<"[", "3", "]">>, <<"[", "0", "]">>, <<"[", "1", "-", "3", "]">>, <<"[", "2", ",", " ",
                                                           "1", "]">>,
     <<"[", "a", "]">>, <<"s", "e", "e", " ">> >>

RECURSIVE AnswerText(_)
AnswerText(tokens) ==
  IF tokens = <<>> THEN <<>>
  ELSE AnswerTokens[Head(tokens)] \o AnswerText(Tail(tokens))

\* the answers of the model: up to MaxTokens pieces
AnswerReplies ==
  UNION {[1..n -> 1..Len(AnswerTokens)] : n \in 0..MaxTokens}

ApologyText ==
  <<"I", " ", "a", "p", "o", "l", "o", "g", "i", "z", "e", ",", " ", "b", "u",
    "t", " ", "I", " ", "w", "a", "s", " ", "u", "n", "a", "b", "l", "e", " ",
    "t", "o", " ", "g", "e", "n", "e", "r", "a", "t", "e", " ", "a", "n", " ",
    "a", "n", "s", "w", "e", "r", " ", "f", "r", "o", "m", " ", "t", "h", "e",
    " ", "a", "v", "a", "i", "l", "a", "b", "l", "e", " ", "c", "o", "n", "t",
    "e", "x", "t", ".">>

SpaceRun(s, i) ==
  CHOOSE k \in 0..(Len(s) - i + 1) :
    /\ \A j \in i..(i + k - 1) : IsSpace(s[j])
    /\ (i + k <= Len(s) => ~IsSpace(s[i + k]))

\* one match of /\[(\d+)\]|\[(\d+)-(\d+)\]|\[(\d+),\s*(\d+)\]/ starting at
\* position i: its length and the numbers of its groups, length 0 if none
MatchAt(s, i) ==
  LET none == [len |-> 0, refs |-> <<>>]
      n1 == DigitRun(s, i + 1)
      p == i + 1 + n1
      first == DigitsValue(SubSeq(s, i + 1, i + n1))
      second(q) ==
        LET n2 == DigitRun(s, q)
        IN  IF n2 >= 1 /\ q + n2 <= Len(s) /\ s[q + n2] = "]"
            THEN [len |-> q + n2 - i + 1,
                  refs |-> <<first, DigitsValue(SubSeq(s, q, q + n2 - 1))>>]
            ELSE none
  IN  IF s[i] # "[" \/ n1 = 0 \/ p > Len(s) THEN none
      ELSE IF s[p] = "]" THEN [len |-> n1 + 2, refs |-> <<first>>]
      ELSE IF s[p] = "-" THEN second(p + 1)
      ELSE IF s[p] = "," THEN second(p + 1 + SpaceRun(s, p + 1))
      ELSE none

\* the Citation of a context item
CitationOf(item) ==
  [id |-> item.id,
   type |-> IF item.kind = "decision" THEN "decision" ELSE "conversation",
   confidence |-> IF item.confidence.t # "undefined" THEN item.confidence.v
                  ELSE 500]

\* groups.forEach of extractCitations for the numbers of one match
RECURSIVE AddRefs(_, _, _)
AddRefs(citations, refs, ctx) ==
  IF refs = <<>> THEN citations
  ELSE LET n == Head(refs)
           found == n \in 1..Len(ctx)
           fresh == found /\ \A j \in 1..Len(citations) :
                                 citations[j].id # ctx[n].id
       IN  AddRefs(IF fresh THEN Append(citations, CitationOf(ctx[n]))
                   ELSE citations,
                   Tail(refs), ctx)

\* the while loop of extractCitations from position i on
RECURSIVE ScanCitations(_, _, _, _)
ScanCitations(s, i, citations, ctx) ==
  IF i > Len(s) THEN citations
  ELSE LET m == MatchAt(s, i)
       IN  IF m.len = 0 THEN ScanCitations(s, i + 1, citations, ctx)
           ELSE ScanCitations(s, i + m.len, AddRefs(citations, m.refs, ctx),
                              ctx)

InsertById(sorted, c) ==
  LET before == {i \in 1..Len(sorted) : IdRank[sorted[i].id] <= IdRank[c.id]}
      k == IF before = {} THEN 0
           ELSE CHOOSE i \in before : \A j \in before : j <= i
  IN  SubSeq(sorted, 1, k) \o <<c>> \o SubSeq(sorted, k + 1, Len(sorted))

\* citations.sort((a, b) => a.id.localeCompare(b.id))
RECURSIVE SortById(_)
SortById(cs) ==
  IF cs = <<>> THEN <<>>
  ELSE InsertById(SortById(SubSeq(cs, 1, Len(cs) - 1)), cs[Len(cs)])

\* as extractAnswerCitations, but every context item is cited
extractAnswerCitationsAll(answerText, ctx) ==
  SortById([i \in 1..Len(ctx) |-> CitationOf(ctx[i])])

\* AdvancedRetrievalService.extractCitations
extractAnswerCitations(answerText, ctx) ==
  SortById(ScanCitations(answerText, 1, <<>>, ctx))

\* building the prompt of generateAnswer throws a TypeError on an item whose
\* timestamp is not a Date
PromptThrows(ctx) == \E i \in 1..Len(ctx) : ~ctx[i].timestampIsDate

\* generateAnswer: an exception of the prompt is answered with the apology,
\* otherwise the model is called and its reply searched for citations
generateAnswer(outcome, ctx) ==
  IF PromptThrows(ctx)
  THEN [answer |-> ApologyText, citations |-> <<>>]
  ELSE LET response == askQuestion(outcome).response.text
       IN  [answer |-> trim(response),
            citations |-> extractAnswerCitations(response, ctx)]

determineResultType(items) ==
  LET decisionCount ==
        Cardinality({i \in 1..Len(items) : items[i].kind = "decision"})
      conversationCount ==
        Cardinality({i \in 1..Len(items) : items[i].kind = "conversation"})
  IN  IF decisionCount > conversationCount THEN "decision"
      ELSE IF conversationCount > decisionCount THEN "conversation"
      ELSE IF Len(items) > 0 THEN "mixed" ELSE "generated"

RECURSIVE TotalConfidence(_)
TotalConfidence(items) ==
  IF items = <<>> THEN 0
  ELSE (IF Head(items).confidence.t # "undefined"
        THEN Head(items).confidence.v ELSE 500)
         + TotalConfidence(Tail(items))

\* calculateOverallConfidence, rounded down to thousandths
calculateOverallConfidence(items) ==
  IF Len(items) = 0 THEN 0 ELSE TotalConfidence(items) \div Len(items)

\* as RetrieveCatch, but the exception goes on to the caller
RetrieveCatchRethrow ==
  [threw |-> TRUE, type |-> "mixed", items |-> <<>>, total |-> 0,
   confidence |-> 0, generated |-> FALSE, answer |-> <<>>,
   citations |-> <<>>]

\* what the catch of retrieve returns
RetrieveCatch ==
  [threw |-> FALSE, type |-> "mixed", items |-> <<>>, total |-> 0,
   confidence |-> 0, generated |-> FALSE, answer |-> <<>>,
   citations |-> <<>>]

\* the result retrieve returns at the end of its try block
RetrievalResult(items, generated, generationResult) ==
  [threw |-> FALSE, type |-> determineResultType(items), items |-> items,
   total |-> Len(items), confidence |-> calculateOverallConfidence(items),
   generated |-> generated, answer |-> generationResult.answer,
   citations |-> generationResult.citations]

NoGeneration == [answer |-> <<>>, citations |-> <<>>]

\* retrieve from the end of a stage to the next await or to the return
AfterStage(stage, results) ==
  IF /\ stage = "combine"
     /\ qcfg.enableReranking
     /\ Len(results) > 1
  THEN /\ qpc' = "rerank"
       /\ qresult' = qresult
  ELSE IF qcfg.enableAnswerGeneration /\ Len(results) > 0
  THEN /\ qpc' = "answer"
       /\ qresult' = qresult
  ELSE /\ qpc' = "done"
       /\ qresult' = RetrievalResult(results, FALSE, NoGeneration)

\* retrieve up to the end of searchDecisions
RetrieveDecisions ==
  /\ qpc = "start"
  /\ \E k \in 1..Len(DecisionSearches) :
       IF DecisionSearches[k].threw
       THEN /\ qpc' = "done"
            /\ qresult' = RetrieveCatch
            /\ thrownAt' = "searchDecisions"
            /\ UNCHANGED decisionResults
       ELSE /\ qpc' = "conversations"
            /\ decisionResults' = DecisionSearches[k].hits
            /\ UNCHANGED <<qresult, thrownAt>>
  /\ UNCHANGED <<qcfg, conversationResults, combinedResults, finalResults,
                 rerankReply, answerReply>>
  /\ UNCHANGED outsideRetrieval

\* retrieve from searchConversations through combineAndFilterResults
RetrieveConversations ==
  /\ qpc = "conversations"
  /\ \E k \in 1..Len(ConversationSearches) :
       IF ConversationSearches[k].threw
       THEN /\ qpc' = "done"
            /\ qresult' = RetrieveCatch
            /\ thrownAt' = "searchConversations"
            /\ UNCHANGED <<conversationResults, combinedResults,
                           finalResults>>
       ELSE LET combined ==
                  combineAndFilterResults(decisionResults,
                                          ConversationSearches[k].hits, qcfg)
            IN  /\ conversationResults' = ConversationSearches[k].hits
                /\ combinedResults' = combined
                /\ finalResults' = combined
                /\ thrownAt' = thrownAt
                /\ AfterStage("combine", combined)
  /\ UNCHANGED <<qcfg, decisionResults, rerankReply, answerReply>>
  /\ UNCHANGED outsideRetrieval

\* retrieve through rerankResults
RetrieveRerank ==
  /\ qpc = "rerank"
  /\ \E k \in RerankOutcomeIds :
       LET reranked == rerankResults(RerankOutcomes[k], combinedResults)
       IN  /\ rerankReply' = k
           /\ finalResults' = reranked
           /\ AfterStage("rerank", reranked)
  /\ UNCHANGED <<qcfg, decisionResults, conversationResults, combinedResults,
                 answerReply, thrownAt>>
  /\ UNCHANGED outsideRetrieval

\* the outcome of the model call of generateAnswer
AnswerOutcome(reply) ==
  IF reply.failed THEN [o |-> "fetchError", reply |-> TextReply(<<>>)]
  ELSE [o |-> "ok", reply |-> TextReply(AnswerText(reply.tokens))]

\* retrieve through generateAnswer to its return
RetrieveAnswer ==
  /\ qpc = "answer"
  /\ IF PromptThrows(finalResults)
     THEN /\ answerReply' = answerReply
          /\ qresult' =
               RetrievalResult(finalResults, TRUE,
                               generateAnswer(AnswerOutcome(NotAsked),
                                              finalResults))
     ELSE \E failed \in BOOLEAN, tokens \in AnswerReplies :
            /\ failed => tokens = <<>>
            /\ answerReply' =
                 [asked |-> TRUE, failed |-> failed, tokens |-> tokens]
            /\ qresult' =
                 RetrievalResult(finalResults, TRUE,
                                 generateAnswer(AnswerOutcome(answerReply'),
                                                finalResults))
  /\ qpc' = "done"
  /\ UNCHANGED <<qcfg, decisionResults, conversationResults, combinedResults,
                 finalResults, rerankReply, thrownAt>>
  /\ UNCHANGED outsideRetrieval

\* ------------------------------------------------------------------------
\* SpecRetrieve: one call of retrieve
\* ------------------------------------------------------------------------
InitRetrieve ==
  /\ OutsideRetrievalIdle
  /\ qcfg \in RetrievalConfigs
  /\ qpc = "start"
  /\ decisionResults = <<>>
  /\ conversationResults = <<>>
  /\ combinedResults = <<>>
  /\ finalResults = <<>>
  /\ rerankReply = 0
  /\ answerReply = NotAsked
  /\ thrownAt = "none"
  /\ qresult = NoValue

NextRetrieve ==
  RetrieveDecisions \/ RetrieveConversations \/ RetrieveRerank
    \/ RetrieveAnswer

SpecRetrieve == InitRetrieve /\ [][NextRetrieve]_vars

\* ------------------------------------------------------------------------
\* Properties of the retrieval
\* ------------------------------------------------------------------------
\* C11: retrieve never raises to its caller, and when the exception of a
\* stage reaches its catch the result has no items, total 0 and
\* confidence 0.
C11_RetrieveNeverRaises ==
  qpc = "done" =>
    /\ ~qresult.threw
    /\ thrownAt # "none" =>
         /\ qresult.items = <<>>
         /\ qresult.total = 0
         /\ qresult.confidence = 0

C11_Witness ==
  /\ qpc = "done"
  /\ thrownAt = "searchConversations"
  /\ Len(decisionResults) = 2
  /\ ~qresult.threw
  /\ qresult.items = <<>>

\* what combineAndFilterResults was given
Merged == qpc \in {"rerank", "answer", "done"} /\ thrownAt = "none"

\* C12: the merged list is in descending order of the search scores of its
\* hits, decision and conversation hits alike: decision hits of 0.9 and 0.5
\* and conversation hits of 0.6 and 0.2 under the thresholds 0.4 / 0.3 give
\* the 0.9 decision, the 0.6 conversation, the 0.5 decision.
C12_MergedListDescendsByScore ==
  Merged =>
    /\ \A i, j \in 1..Len(combinedResults) :
         i < j => combinedResults[i].score >= combinedResults[j].score
    /\ ( /\ Len(decisionResults) = 2
         /\ Len(conversationResults) = 2
         /\ qcfg.maxResults >= 3 )
       => [i \in 1..Len(combinedResults) |-> combinedResults[i].id]
            = <<"d1", "c1", "d2">>

\* the ids the reply of the rerank call names, none if it is not an array
NamedIds ==
  IF rerankReply = 0 THEN {}
  ELSE LET response == askQuestion(RerankOutcomes[rerankReply]).response
       IN  IF response.json /\ response.value.t = "arr"
           THEN {response.value.items[i] : i \in 1..response.value.len}
           ELSE {}

Unnamed(items) == SelectSeq(items, LAMBDA r : r.id \notin NamedIds)

\* C13: reranking never drops an item: every item of the merged list is in
\* the reranked list, and the items the reply did not name (all of them when
\* the reply cannot be parsed) keep their relative order.
C13_RerankKeepsEveryItem ==
  (Merged /\ qpc # "rerank") =>
    /\ \A i \in 1..Len(combinedResults) :
         \E j \in 1..Len(finalResults) : finalResults[j] = combinedResults[i]
    /\ Unnamed(finalResults) = Unnamed(combinedResults)

C13_Witness ==
  /\ Merged
  /\ qpc = "done"
  /\ rerankReply # 0
  /\ NamedIds # {}
  /\ finalResults # combinedResults
  /\ Len(Unnamed(combinedResults)) = 2

\* the list positions a piece of an answer names: [n] names n, [a-b] names
\* a and b, [a, b] names a and b
TokenRefs == << {1}, {2}, {3}, {0}, {1, 3}, {2, 1}, {}, {} >>

\* the list positions named by the pieces that are a marker [n]
TokenRefsSingle == << {1}, {2}, {3}, {0}, {}, {}, {}, {} >>

\* an answer was generated from a reply of the model
Answered == qpc = "done" /\ qresult.generated /\ answerReply.asked

CitedIds == {qresult.citations[i].id : i \in 1..Len(qresult.citations)}

\* the ids of the context items at the positions the answer names
ReferencedIds(refs) ==
  LET named == UNION {refs[answerReply.tokens[i]] :
                        i \in 1..Len(answerReply.tokens)}
  IN  {finalResults[n].id : n \in named \cap (1..Len(finalResults))}

\* C14 as stated: the citations are exactly the context items named by the
\* markers [n] of the answer text, each at most once, and none when the
\* answer has no such marker.
C14_CitationsAreTheSingleMarkers ==
  Answered =>
    /\ CitedIds = ReferencedIds(TokenRefsSingle)
    /\ \A i, j \in 1..Len(qresult.citations) :
         qresult.citations[i].id = qresult.citations[j].id => i = j

\* C14 amended: the citations are exactly the context items at the list
\* positions named by the markers of the answer text, a marker being [n],
\* [a-b] (which names a and b only) or [a, b]; each item is cited at most
\* once, and an answer without marker has no citation.
C14_CitationsAreTheMarkersOfTheAnswer ==
  Answered =>
    /\ CitedIds = ReferencedIds(TokenRefs)
    /\ \A i, j \in 1..Len(qresult.citations) :
         qresult.citations[i].id = qresult.citations[j].id => i = j
    /\ ReferencedIds(TokenRefs) = {} => qresult.citations = <<>>

C14_Witness ==
  /\ Answered
  /\ Len(finalResults) = 3
  /\ answerReply.tokens = <<5, 1>>
  /\ Len(qresult.citations) = 2

\* ------------------------------------------------------------------------
\* SpecBrief: the status of a brief under approveBrief, archiveBrief and
\* updateBrief (DecisionBriefUtils and DecisionBriefService)
\* ------------------------------------------------------------------------
MaxOps == 3

Statuses == {"pending", "approved", "archived"}
Users == {"u1", "u2"}

\* a key the caller left out of the updates object
Absent == [t |-> "absent"]

\* { ...brief, ...updates }: a key of updates replaces the key of brief
Spread(old, new) == IF new = Absent THEN old ELSE new

\* DecisionBriefUtils.approveBrief
approveBrief(b, approvedBy) ==
  [b EXCEPT !.status = "approved", !.approvedBy = approvedBy]

\* DecisionBriefUtils.archiveBrief
archiveBrief(b) == [b EXCEPT !.status = "archived"]

\* DecisionBriefUtils.updateBrief: the merged object, and whether it throws
updateBrief(b, updates) ==
  LET updated ==
        [b EXCEPT !.fields = [@ EXCEPT !.title = Spread(@, updates.title)],
                  !.status = IF updates.status = "absent" THEN @
                             ELSE updates.status]
  IN  [threw |-> ~validateDecisionBrief(updated.fields).valid,
       value |-> updated]

\* the updates the callers of DecisionBriefUtils.updateBrief pass
BriefUpdates ==
  [title : {Absent, JStr(<<>>), JStr(Rep("u", 5))},
   status : {"absent"} \cup Statuses]

\* the inputs of DecisionBriefService.updateBrief
BriefUpdateInputs ==
  [userId : Users,
   decisionSummary : {Absent, JStr(Rep("v", 5))},
   status : {"absent"} \cup Statuses]

Ended(op, threw) == [op |-> op, threw |-> threw]

\* prisma.decisionBrief.findFirst({ where: { id, userId } })
FindFirst(row, userId) == row.userId = userId

\* prisma.decisionBrief.update: an undefined field of data is left alone
PrismaUpdate(row, data) ==
  [row EXCEPT !.decisionSummary = Spread(@, data.decisionSummary),
              !.status = IF data.status = "absent" THEN @ ELSE data.status]

\* DecisionBriefService.updateBrief on the stored row
ServiceUpdate(op, inp) ==
  IF FindFirst(stored, inp.userId)
  THEN /\ stored' = PrismaUpdate(stored, inp)
       /\ bresult' = Ended(op, FALSE)
  ELSE /\ stored' = stored
       /\ bresult' = Ended(op, TRUE)

UtilApproveBrief ==
  /\ bops < MaxOps
  /\ \E u \in Users : memBrief' = approveBrief(memBrief, u)
  /\ bresult' = Ended("approveBrief", FALSE)
  /\ bops' = bops + 1
  /\ UNCHANGED stored
  /\ UNCHANGED outsideBrief

UtilArchiveBrief ==
  /\ bops < MaxOps
  /\ memBrief' = archiveBrief(memBrief)
  /\ bresult' = Ended("archiveBrief", FALSE)
  /\ bops' = bops + 1
  /\ UNCHANGED stored
  /\ UNCHANGED outsideBrief

UtilUpdateBrief ==
  /\ bops < MaxOps
  /\ \E updates \in BriefUpdates :
       LET r == updateBrief(memBrief, updates)
       IN  IF r.threw
           THEN /\ memBrief' = memBrief
                /\ bresult' = Ended("updateBrief", TRUE)
           ELSE /\ memBrief' = r.value
                /\ bresult' = Ended("updateBrief", FALSE)
  /\ bops' = bops + 1
  /\ UNCHANGED stored
  /\ UNCHANGED outsideBrief

ServiceUpdateBrief ==
  /\ bops < MaxOps
  /\ \E inp \in BriefUpdateInputs :
       ServiceUpdate("DecisionBriefService.updateBrief", inp)
  /\ bops' = bops + 1
  /\ UNCHANGED memBrief
  /\ UNCHANGED outsideBrief

ServiceApproveBrief ==
  /\ bops < MaxOps
  /\ \E u \in Users :
       ServiceUpdate("DecisionBriefService.approveBrief",
                     [userId |-> u, decisionSummary |-> Absent,
                      status |-> "approved"])
  /\ bops' = bops + 1
  /\ UNCHANGED memBrief
  /\ UNCHANGED outsideBrief

ServiceArchiveBrief ==
  /\ bops < MaxOps
  /\ \E u \in Users :
       ServiceUpdate("DecisionBriefService.archiveBrief",
                     [userId |-> u, decisionSummary |-> Absent,
                      status |-> "archived"])
  /\ bops' = bops + 1
  /\ UNCHANGED memBrief
  /\ UNCHANGED outsideBrief

\* a brief as createDecisionBrief and createFromCandidate make it
InitBrief ==
  /\ OutsideBriefIdle
  /\ memBrief = [fields |-> GoodBrief, status |-> "pending",
                 approvedBy |-> "none"]
  /\ stored = [userId |-> "u1", decisionSummary |-> JStr(Rep("s", 20)),
               status |-> "pending"]
  /\ bops = 0
  /\ bresult = NoValue

NextBrief ==
  \/ UtilApproveBrief
  \/ UtilArchiveBrief
  \/ UtilUpdateBrief
  \/ ServiceUpdateBrief
  \/ ServiceApproveBrief
  \/ ServiceArchiveBrief

SpecBrief == InitBrief /\ [][NextBrief]_vars

\* the status of b does not go back in a step
Forward(old, new) ==
  /\ (old # "pending" => new # "pending")
  /\ (old = "archived" => new = "archived")

\* C15: the status of a brief moves only forward under approveBrief,
\* archiveBrief and updateBrief: a brief that has left pending is never
\* pending again, and an archived brief is never approved or pending again.
C15_StatusMovesOnlyForward ==
  [][/\ Forward(memBrief.status, memBrief'.status)
     /\ Forward(stored.status, stored'.status)]_vars

\* ------------------------------------------------------------------------
\* SpecPersist: DecisionDetectionAgent.runDetection and
\* runOnConversationIds, run one after the other
\* ------------------------------------------------------------------------
MaxRuns == 2

DefaultLimit == 200
ServiceConfidenceThreshold == 700

\* the slack rows of the conversation table, newest first
ConversationTable == <<"k2", "k1">>
ConversationIds == {ConversationTable[i] : i \in DOMAIN ConversationTable}

\* findMany ... take: limit
Take(s, limit) == SubSeq(s, 1, Min(limit, Len(s)))

\* decisions: { none: {} }
Unlinked(rows) ==
  LET NoneLinked(c) == \A r \in rows : r.conversationId # c
  IN  SelectSeq(ConversationTable, NoneLinked)

\* where: { id: { in: conversationIds } }
WithIds(ids) ==
  LET Wanted(c) == c \in ids
  IN  SelectSeq(ConversationTable, Wanted)

\* what parseDecisionResponse makes of a reply: isDecision and confidence
DetectionReplies ==
  { [threw |-> TRUE, isDecision |-> FALSE, confidence |-> 0],
    [threw |-> FALSE, isDecision |-> TRUE, confidence |-> 900],
    [threw |-> FALSE, isDecision |-> TRUE, confidence |-> 500],
    [threw |-> FALSE, isDecision |-> FALSE, confidence |-> 900] }

\* DecisionDetectionService.detectDecisionInBlock: a candidate or null
detectDecisionInBlock(c, reply, uuid) ==
  IF ~reply.threw /\ reply.confidence >= ServiceConfidenceThreshold
  THEN <<[id |-> uuid, conversationId |-> c,
          isDecision |-> reply.isDecision]>>
  ELSE <<>>

\* DecisionDetectionService.detectDecisions over the blocks, one uuid each
RECURSIVE detectDecisions(_, _, _)
detectDecisions(blocks, replies, uuid) ==
  IF blocks = <<>> THEN <<>>
  ELSE detectDecisionInBlock(Head(blocks), replies[Head(blocks)], uuid)
       \o detectDecisions(Tail(blocks), replies, uuid + 1)

\* a run fetched its conversations: detect, or return at once if none
StartRun(fn, convs) ==
  /\ pfn' = fn
  /\ pruns' = pruns + 1
  /\ scanned' = Len(convs)
  /\ createdCount' = 0
  /\ didx' = 1
  /\ IF Len(convs) = 0
     THEN /\ presult' = [scanned |-> 0, created |-> 0]
          /\ ppc' = "idle"
          /\ detections' = <<>>
          /\ UNCHANGED nextUuid
     ELSE /\ \E replies \in [ConversationIds -> DetectionReplies] :
               detections' = detectDecisions(convs, replies, nextUuid)
          /\ nextUuid' = nextUuid + Len(convs)
          /\ ppc' = "persist"
          /\ UNCHANGED presult
  /\ UNCHANGED <<candidateRows, handled>>
  /\ UNCHANGED outsidePersist

RunDetection ==
  /\ ppc = "idle"
  /\ pruns < MaxRuns
  /\ \E limit \in {1, DefaultLimit} :
       StartRun("runDetection", Take(Unlinked(candidateRows), limit))

RunOnConversationIds ==
  /\ ppc = "idle"
  /\ pruns < MaxRuns
  /\ \E ids \in SUBSET ConversationIds :
       StartRun("runOnConversationIds", WithIds(ids))

\* prisma.decisionCandidate.findFirst({ where: { conversationId } })
ExistingNever(rows, conversationId) == FALSE

Existing(rows, conversationId) ==
  \E r \in rows : r.conversationId = conversationId

\* one pass of the for loop over the detections
PersistDetection ==
  /\ ppc = "persist"
  /\ didx <= Len(detections)
  /\ LET d == detections[didx]
     IN  IF ~d.isDecision
         THEN UNCHANGED <<candidateRows, createdCount, handled>>
         ELSE IF Existing(candidateRows, d.conversationId)
         THEN /\ handled' =
                   [handled EXCEPT ![d.conversationId] = @ + 1]
              /\ UNCHANGED <<candidateRows, createdCount>>
         ELSE \/ /\ candidateRows' =
                      candidateRows \cup
                        {[id |-> d.id, conversationId |-> d.conversationId]}
                 /\ createdCount' = createdCount + 1
                 /\ handled' =
                      [handled EXCEPT ![d.conversationId] = @ + 1]
              \/ \* create throws: the catch logs it
                 UNCHANGED <<candidateRows, createdCount, handled>>
  /\ didx' = didx + 1
  /\ UNCHANGED <<ppc, pfn, detections, scanned, presult, pruns, nextUuid>>
  /\ UNCHANGED outsidePersist

FinishRun ==
  /\ ppc = "persist"
  /\ didx > Len(detections)
  /\ presult' = [scanned |-> scanned, created |-> createdCount]
  /\ ppc' = "idle"
  /\ UNCHANGED <<candidateRows, pfn, detections, didx, scanned,
                 createdCount, pruns, nextUuid, handled>>
  /\ UNCHANGED outsidePersist

InitPersist ==
  /\ OutsidePersistIdle
  /\ candidateRows = {}
  /\ ppc = "idle"
  /\ pfn = "none"
  /\ detections = <<>>
  /\ didx = 1
  /\ scanned = 0
  /\ createdCount = 0
  /\ presult = NoValue
  /\ pruns = 0
  /\ nextUuid = 1
  /\ handled = [c \in ConversationIds |-> 0]

NextPersist ==
  \/ RunDetection
  \/ RunOnConversationIds
  \/ PersistDetection
  \/ FinishRun

SpecPersist == InitPersist /\ [][NextPersist]_vars

RowsOf(c) == {r \in candidateRows : r.conversationId = c}

\* C16: persisting detection results is idempotent: however often the
\* persistence step has gone through a positive detection of a
\* conversation, exactly one candidate row is stored for the conversation,
\* and no conversation ever has two.
C16_OneStoredCandidatePerConversation ==
  \A c \in ConversationIds :
     /\ Cardinality(RowsOf(c)) <= 1
     /\ handled[c] >= 1 => Cardinality(RowsOf(c)) = 1

\* the step went twice through a positive detection of one conversation
C16_Witness ==
  /\ ppc = "idle"
  /\ pruns = 2
  /\ \E c \in ConversationIds :
       handled[c] = 2 /\ Cardinality(RowsOf(c)) = 1

\* ------------------------------------------------------------------------
\* SpecLimiter: RateLimiter.waitForRateLimit under concurrent callers
\* ------------------------------------------------------------------------
MaxCallers == 3
MaxLimiterCalls == 23
MaxTicks == 2
TickMs == 1000

maxRequests == 20
windowMs == 60000
WaitBufferMs == 100

Callers == 1..MaxCallers

\* this.requestTimes.filter(time => now - time < this.windowMs)
FilterWindow(times, t) ==
  LET InWindow(time) == t - time < windowMs
  IN  SelectSeq(times, InWindow)

\* the test that sends a caller to sleep
AtLimit(times) == Len(times) >= maxRequests

\* waitForRateLimit up to its await, or to its end when it does not wait
EnterLimiter(i) ==
  /\ lpc[i] = "idle"
  /\ lcalls < MaxLimiterCalls
  /\ lcalls' = lcalls + 1
  /\ LET kept == FilterWindow(requestTimes, now)
     IN  IF AtLimit(kept)
         THEN LET oldestRequest == kept[1]
                  waitTime == windowMs - (now - oldestRequest) + WaitBufferMs
              IN  /\ requestTimes' = kept
                  /\ lpc' = [lpc EXCEPT ![i] = "waiting"]
                  /\ wakeAt' = [wakeAt EXCEPT ![i] = now + waitTime]
                  /\ UNCHANGED admitted
         ELSE /\ requestTimes' = Append(kept, now)
              /\ admitted' = Append(admitted, now)
              /\ UNCHANGED <<lpc, wakeAt>>
  /\ UNCHANGED <<now, ticks>>
  /\ UNCHANGED outsideLimiter

\* waitForRateLimit after its await: clean up and record the request
LeaveWait(i) ==
  /\ lpc[i] = "waiting"
  /\ now >= wakeAt[i]
  /\ requestTimes' = Append(FilterWindow(requestTimes, now), now)
  /\ admitted' = Append(admitted, now)
  /\ lpc' = [lpc EXCEPT ![i] = "idle"]
  /\ UNCHANGED <<now, wakeAt, lcalls, ticks>>
  /\ UNCHANGED outsideLimiter

Sleeping == {i \in Callers : lpc[i] = "waiting"}

\* the clock moves on while no timer is due
Tick ==
  /\ ticks < MaxTicks
  /\ \A i \in Sleeping : now + TickMs <= wakeAt[i]
  /\ now' = now + TickMs
  /\ ticks' = ticks + 1
  /\ UNCHANGED <<requestTimes, lpc, wakeAt, lcalls, admitted>>
  /\ UNCHANGED outsideLimiter

\* the clock reaches the earliest timer
TimerDue ==
  /\ Sleeping # {}
  /\ \A i \in Sleeping : now < wakeAt[i]
  /\ \E i \in Sleeping :
       /\ \A j \in Sleeping : wakeAt[i] <= wakeAt[j]
       /\ now' = wakeAt[i]
  /\ UNCHANGED <<requestTimes, lpc, wakeAt, lcalls, ticks, admitted>>
  /\ UNCHANGED outsideLimiter

InitLimiter ==
  /\ OutsideLimiterIdle
  /\ requestTimes = <<>>
  /\ now = 0
  /\ lpc = [i \in Callers |-> "idle"]
  /\ wakeAt = [i \in Callers |-> 0]
  /\ lcalls = 0
  /\ ticks = 0
  /\ admitted = <<>>

NextLimiter ==
  \/ \E i \in Callers : EnterLimiter(i)
  \/ \E i \in Callers : LeaveWait(i)
  \/ Tick
  \/ TimerDue

SpecLimiter == InitLimiter /\ [][NextLimiter]_vars

\* the requests recorded in the window of windowMs that ends at time t
AdmittedInWindow(t) ==
  {k \in 1..Len(admitted) : admitted[k] <= t /\ t - admitted[k] < windowMs}

\* C17: the limiter admits at most maxRequests calls in any rolling window
\* of windowMs, for any number of concurrent callers of waitForRateLimit.
C17_AtMostMaxRequestsPerWindow ==
  \A k \in 1..Len(admitted) :
     Cardinality(AdmittedInWindow(admitted[k])) <= maxRequests

\* ------------------------------------------------------------------------
\* SpecAsk: LLMService.askQuestion and the HTTP request it awaits
\* ------------------------------------------------------------------------
MaxAskCalls == 3
MaxElapsed == 3

\* what the request does: the fetch promise, then the body of the response
HttpOutcomes ==
  { [fetch |-> "never", body |-> "none"],
    [fetch |-> "rejects", body |-> "none"],
    [fetch |-> "notOk", body |-> "none"],
    [fetch |-> "ok", body |-> "never"],
    [fetch |-> "ok", body |-> "fails"],
    [fetch |-> "ok", body |-> "empty"],
    [fetch |-> "ok", body |-> "text"] }

InCall == {"limiter", "fetching", "reading"}

\* askQuestion is called and awaits rateLimiter.waitForRateLimit()
StartAsk ==
  /\ apc = "idle"
  /\ acalls < MaxAskCalls
  /\ stream' \in BOOLEAN
  /\ apc' = "limiter"
  /\ elapsed' = 0
  /\ callMetrics' = NoMetrics
  /\ http' = NoValue
  /\ UNCHANGED <<areply, acalls>>
  /\ UNCHANGED outsideAsk

\* the limiter lets the call through and the request is sent
SendRequest ==
  /\ apc = "limiter"
  /\ http' \in HttpOutcomes
  /\ apc' = "fetching"
  /\ callMetrics' = [callMetrics EXCEPT !.llm_requests_total = @ + 1]
  /\ UNCHANGED <<stream, areply, acalls, elapsed>>
  /\ UNCHANGED outsideAsk

\* the catch of askQuestion, reached with the counters at m
AskCatchUncounted(m) ==
  /\ areply' = SorryText
  /\ apc' = "returned"
  /\ callMetrics' = m

AskCatch(m) ==
  /\ areply' = SorryText
  /\ apc' = "returned"
  /\ callMetrics' = [m EXCEPT !.llm_request_errors_total = @ + 1]

\* the fetch promise settles
FetchSettles ==
  /\ apc = "fetching"
  /\ http.fetch # "never"
  /\ IF http.fetch = "ok"
     THEN /\ apc' = "reading"
          /\ UNCHANGED <<areply, callMetrics>>
     ELSE AskCatch(callMetrics)
  /\ UNCHANGED <<stream, http, acalls, elapsed>>
  /\ UNCHANGED outsideAsk

\* response.json(), or the reader loop of a streamed response, settles
BodySettles ==
  /\ apc = "reading"
  /\ http.body # "never"
  /\ IF http.body = "fails"
     THEN AskCatch(IF stream
                   THEN [callMetrics EXCEPT
                           !.llm_request_stream_errors_total = @ + 1]
                   ELSE callMetrics)
     ELSE /\ areply' = IF http.body = "empty" THEN NoAnswerText ELSE TextYes
          /\ apc' = "returned"
          /\ UNCHANGED callMetrics
  /\ UNCHANGED <<stream, http, acalls, elapsed>>
  /\ UNCHANGED outsideAsk

\* the caller goes on with the reply
AskReturns ==
  /\ apc = "returned"
  /\ apc' = "idle"
  /\ acalls' = acalls + 1
  /\ UNCHANGED <<stream, http, areply, elapsed, callMetrics>>
  /\ UNCHANGED outsideAsk

\* time passes while the call is running
AskTick ==
  /\ apc \in InCall
  /\ elapsed < MaxElapsed
  /\ elapsed' = elapsed + 1
  /\ UNCHANGED <<apc, stream, http, areply, acalls, callMetrics>>
  /\ UNCHANGED outsideAsk

InitAsk ==
  /\ OutsideAskIdle
  /\ apc = "idle"
  /\ stream = FALSE
  /\ http = NoValue
  /\ areply = <<>>
  /\ acalls = 0
  /\ elapsed = 0
  /\ callMetrics = NoMetrics

NextAsk ==
  \/ StartAsk
  \/ SendRequest
  \/ FetchSettles
  \/ BodySettles
  \/ AskReturns
  \/ AskTick

SpecAsk == InitAsk /\ [][NextAsk]_vars

\* every step of the program and of the clock is taken when it can be; a
\* request that never completes has no step
SpecAskFair ==
  /\ SpecAsk
  /\ WF_vars(SendRequest)
  /\ WF_vars(FetchSettles)
  /\ WF_vars(BodySettles)
  /\ WF_vars(AskReturns)
  /\ WF_vars(AskTick)

\* C18: every language-model call is bounded by a timeout: an askQuestion
\* call returns to its caller, also when its HTTP request never completes.
C18_EveryCallReturns == (apc \in InCall) ~> (apc = "returned")

\* ------------------------------------------------------------------------
\* Range of the confidence of the candidates of the detector (Spec)
\* ------------------------------------------------------------------------
\* C19: every Decision Candidate the detector emits has a confidence within
\* [0,1], whatever text the model returned for its window.
C19_CandidateConfidenceInUnitInterval ==
  \A k \in 1..Len(decisions) :
     /\ decisions[k].confidence >= 0
     /\ decisions[k].confidence <= 1000

\* ------------------------------------------------------------------------
\* Replies of generateFromCandidate that meet the schema (SpecSynth)
\* ------------------------------------------------------------------------
\* the replies, initial or repair, that are JSON passing validateDecisionBrief
ConformingReplies ==
  {k \in 1..Len(briefReplies) :
     /\ ToBoolean(briefReplies[k])
     /\ validateDecisionBrief(briefReplies[k]).valid}

\* C20: if the initial reply or a repair reply (at most 2 repairs) is a JSON
\* object that passes validateDecisionBrief, generateFromCandidate returns
\* valid: true with that brief and an empty error list.
C20_ConformingReplyIsReturnedAsValid ==
  (fpc = "done" /\ ConformingReplies # {}) =>
    /\ briefResult.valid
    /\ briefResult.errors = <<>>
    /\ \E k \in ConformingReplies :
         briefResult = ValidBrief(briefReplies[k], Candidate)

\* ------------------------------------------------------------------------
\* SpecAgent: DecisionBriefAgent.runForCandidate, calls running side by side
\* ------------------------------------------------------------------------
MaxAgentCalls == 2

AgentCalls == 1..MaxAgentCalls

\* the decision_candidates table: id and conversationId
CandidateRows ==
  { [id |-> "cand-1", conversationId |-> "conv-1"],
    [id |-> "cand-2", conversationId |-> "conv-2"] }

\* the conversations table
ConversationRows == {"conv-1", "conv-2"}

\* the ids a caller of runForCandidate passes
RequestedIds == {"cand-1", "cand-2", "cand-0"}

\* prisma.decisionCandidate.findUnique({ where: { id } })
FindCandidate(id) == {c \in CandidateRows : c.id = id}

\* what DecisionBriefService.generateFromCandidate returns
GenerationResults ==
  { ValidBrief(GoodBrief, Candidate),
    [brief |-> JNull, valid |-> FALSE,
     errors |-> <<"Model did not return valid JSON or conformed object.">>],
    [brief |-> GoodBrief, valid |-> FALSE,
     errors |-> <<"title is required">>] }

\* the test that lets a generation through to the database
EligibleWithBrief(g) == ToBoolean(g.brief)

Eligible(g) == g.valid /\ ToBoolean(g.brief)

\* decision_briefs_decisionCandidateId_key
UniqueViolationNever(rows, candidateId) == FALSE

UniqueViolation(rows, candidateId) ==
  \E r \in rows : r.decisionCandidateId = candidateId

\* the returns of runForCandidate
AgentFailure(errors, b) == [success |-> FALSE, errors |-> errors, brief |-> b]

AgentSuccess(row) == [success |-> TRUE, errors |-> <<>>, brief |-> row]

\* runForCandidate is called: the candidate and its conversation are loaded
LoadCandidate(i) ==
  /\ gpc[i] = "idle"
  /\ \E id \in RequestedIds :
       /\ requested' = [requested EXCEPT ![i] = id]
       /\ IF FindCandidate(id) = {}
          THEN /\ gresult' = [gresult EXCEPT ![i] =
                    AgentFailure(<<"DecisionCandidate not found">>, JNull)]
               /\ gpc' = [gpc EXCEPT ![i] = "done"]
          ELSE LET c == CHOOSE c \in FindCandidate(id) : TRUE
               IN  IF c.conversationId \notin ConversationRows
                   THEN /\ gresult' = [gresult EXCEPT ![i] =
                             AgentFailure(<<"Conversation not found">>, JNull)]
                        /\ gpc' = [gpc EXCEPT ![i] = "done"]
                   ELSE /\ gpc' = [gpc EXCEPT ![i] = "generating"]
                        /\ UNCHANGED gresult
  /\ UNCHANGED <<briefRows, generation, wrote>>
  /\ UNCHANGED outsideAgent

\* generateFromCandidate returns; a generation that is not eligible ends
\* the call
Generate(i) ==
  /\ gpc[i] = "generating"
  /\ \E g \in GenerationResults :
       /\ generation' = [generation EXCEPT ![i] = g]
       /\ IF Eligible(g)
          THEN /\ gpc' = [gpc EXCEPT ![i] = "persisting"]
               /\ UNCHANGED gresult
          ELSE /\ gpc' = [gpc EXCEPT ![i] = "done"]
               /\ gresult' = [gresult EXCEPT ![i] =
                    AgentFailure(g.errors, g.brief)]
  /\ UNCHANGED <<briefRows, requested, wrote>>
  /\ UNCHANGED outsideAgent

\* prisma.$transaction: create the brief row; a violation of the unique
\* index rolls back and reaches the catch of runForCandidate
Persist(i) ==
  /\ gpc[i] = "persisting"
  /\ IF UniqueViolation(briefRows, requested[i])
     THEN /\ gresult' = [gresult EXCEPT ![i] =
               AgentFailure(<<"Unique constraint failed">>, JNull)]
          /\ UNCHANGED <<briefRows, wrote>>
     ELSE LET row == [id |-> i, decisionCandidateId |-> requested[i]]
          IN  /\ briefRows' = briefRows \cup {row}
              /\ wrote' = [wrote EXCEPT ![i] = TRUE]
              /\ gresult' = [gresult EXCEPT ![i] = AgentSuccess(row)]
  /\ gpc' = [gpc EXCEPT ![i] = "done"]
  /\ UNCHANGED <<requested, generation>>
  /\ UNCHANGED outsideAgent

InitAgent ==
  /\ OutsideAgentIdle
  /\ briefRows = {}
  /\ gpc = [i \in AgentCalls |-> "idle"]
  /\ requested = [i \in AgentCalls |-> "none"]
  /\ generation = [i \in AgentCalls |-> NoValue]
  /\ wrote = [i \in AgentCalls |-> FALSE]
  /\ gresult = [i \in AgentCalls |-> NoValue]

NextAgent ==
  \/ \E i \in AgentCalls : LoadCandidate(i)
  \/ \E i \in AgentCalls : Generate(i)
  \/ \E i \in AgentCalls : Persist(i)

SpecAgent == InitAgent /\ [][NextAgent]_vars

\* C21: runForCandidate writes a DecisionBrief record only when generation
\* returned valid = true with a non-null brief; when generation fails
\* validation it persists nothing and returns success: false with the
\* errors of the generation.
C21_OnlyValidGenerationsArePersisted ==
  \A i \in AgentCalls :
     /\ wrote[i] => generation[i].valid /\ ToBoolean(generation[i].brief)
     /\ (gpc[i] = "done" /\ generation[i] # NoValue
           /\ ~(generation[i].valid /\ ToBoolean(generation[i].brief))) =>
          /\ ~wrote[i]
          /\ \A r \in briefRows : r.id # i
          /\ ~gresult[i].success
          /\ gresult[i].errors = generation[i].errors

\* one call persisted a valid generation, another was refused an invalid one
C21_Witness ==
  \E i, j \in AgentCalls :
     /\ gpc[i] = "done" /\ wrote[i] /\ gresult[i].success
     /\ gpc[j] = "done" /\ generation[j] # NoValue
     /\ ~generation[j].valid /\ ToBoolean(generation[j].brief)
     /\ ~wrote[j]

BriefsOf(candidateId) ==
  {r \in briefRows : r.decisionCandidateId = candidateId}

\* C28: at most one DecisionBrief record linked to a DecisionCandidate is
\* ever persisted, under every interleaving of concurrent or repeated
\* runForCandidate calls for that candidate.
C28_OneBriefPerCandidate ==
  \A id \in RequestedIds : Cardinality(BriefsOf(id)) <= 1

\* two calls for one candidate both reached the transaction
C28_Witness ==
  \E i, j \in AgentCalls :
     /\ i # j
     /\ requested[i] = requested[j]
     /\ gpc[i] = "done" /\ gpc[j] = "done"
     /\ generation[i] # NoValue /\ generation[j] # NoValue
     /\ generation[i].valid /\ generation[j].valid
     /\ wrote[i] /\ ~wrote[j]
     /\ Cardinality(BriefsOf(requested[i])) = 1

\* ------------------------------------------------------------------------
\* Failed calls of askQuestion and the metrics counters (SpecAsk)
\* ------------------------------------------------------------------------
\* the fetch failed, the status was not OK, or the body or reader threw
RequestFailed ==
  /\ http # NoValue
  /\ \/ http.fetch \in {"rejects", "notOk"}
     \/ http.fetch = "ok" /\ http.body = "fails"

\* C22: askQuestion never throws: when the fetch fails, the HTTP status is
\* not OK or the stream reader throws, it returns the fallback text that
\* begins with "Sorry", and the call increments llm_requests_total exactly
\* once and llm_request_errors_total exactly once.
C22_FailedCallReturnsFallbackAndCountsOnce ==
  (apc = "returned" /\ RequestFailed) =>
    /\ Len(areply) >= 5
    /\ SubSeq(areply, 1, 5) = <<"S", "o", "r", "r", "y">>
    /\ callMetrics.llm_requests_total = 1
    /\ callMetrics.llm_request_errors_total = 1

\* a streamed call whose reader threw has returned
C22_Witness ==
  /\ apc = "returned"
  /\ stream
  /\ http # NoValue
  /\ http.fetch = "ok"
  /\ http.body = "fails"
  /\ callMetrics.llm_request_stream_errors_total = 1

\* ------------------------------------------------------------------------
\* The caller's message array after segmentation (SpecSeg)
\* ------------------------------------------------------------------------
\* C23: segmentation is pure with respect to its input: after
\* createSlidingWindows returns, the caller's message array holds the same
\* elements in the same order as before the call.
C23_SegmentationLeavesTheInputAlone ==
  pc = "segmented" => conversation = input

\* ------------------------------------------------------------------------
\* SpecSlack: backfillWorkspace and incrementalSync over one workspace
\* ------------------------------------------------------------------------
MaxSyncRuns == 3

MaxSlackTs == 2

\* what listChannels returns, in the order of the reply
Channels == <<"C1", "C2">>

ChannelIds == {Channels[i] : i \in 1..Len(Channels)}

\* the histories Slack may hold: per channel a set of message ts
SlackHistories == [ChannelIds -> SUBSET (1..MaxSlackTs)]

\* fetchChannelMessages: conversations.history with oldest, which keeps the
\* messages after that ts; no oldest (0) gives the whole channel
fetchChannelMessages(h, channelId, oldest_) ==
  {ts \in h[channelId] : oldest_ = 0 \/ ts > oldest_}

\* msgs.reverse(): Slack answers newest first, the loop runs oldest first
RECURSIVE OldestFirst(_)
OldestFirst(tss) ==
  IF tss = {} THEN <<>>
  ELSE LET first == CHOOSE t \in tss : \A u \in tss : t <= u
       IN  <<first>> \o OldestFirst(tss \ {first})

\* `${channelId}:${message.ts}`
ExternalId(channelId, ts) == <<channelId, ts>>

\* processMessage: findFirst by externalId; an existing row is kept, a
\* missing one is created
processMessage(rows, channelId, ts) ==
  IF \E k \in 1..Len(rows) : rows[k] = ExternalId(channelId, ts)
  THEN rows
  ELSE Append(rows, ExternalId(channelId, ts))

RECURSIVE ProcessAll(_, _, _)
ProcessAll(rows, channelId, msgs) ==
  IF msgs = <<>> THEN rows
  ELSE ProcessAll(processMessage(rows, channelId, Head(msgs)), channelId,
                  Tail(msgs))

\* the loop of incrementalSync over the messages of a channel
RECURSIVE LatestTs(_, _)
LatestTs(latestTs, msgs) ==
  IF msgs = <<>> THEN latestTs
  ELSE LatestTs(IF Head(msgs) > latestTs THEN Head(msgs) ELSE latestTs,
                Tail(msgs))

\* slackSyncStatus.upsert of backfillWorkspace, once per channel
BackfillUpsert(status, n) ==
  IF status = NoValue
  THEN [totalChannels |-> 1, totalMessages |-> n, errorCount |-> 0,
        lastMessageTimestamp |-> 0]
  ELSE [status EXCEPT !.totalChannels = @ + 1, !.totalMessages = @ + n]

\* slackSyncStatus.upsert of incrementalSync, once per channel with messages
IncrementalUpsert(status, latestTs, n) ==
  IF status = NoValue
  THEN [totalChannels |-> 1, totalMessages |-> n, errorCount |-> 0,
        lastMessageTimestamp |-> latestTs]
  ELSE [status EXCEPT !.lastMessageTimestamp = latestTs,
                      !.totalMessages = @ + n]

\* slackSyncStatus.update in the catch of a channel
CountError(status) == [status EXCEPT !.errorCount = @ + 1]

\* what a backfill leaves behind
Persisted ==
  [rows |-> slackRows,
   totalChannels |-> IF slackSyncStatus = NoValue THEN 0
                     ELSE slackSyncStatus.totalChannels,
   totalMessages |-> IF slackSyncStatus = NoValue THEN 0
                     ELSE slackSyncStatus.totalMessages]

\* backfillWorkspace is called
StartBackfill ==
  /\ spc = "idle"
  /\ syncRuns < MaxSyncRuns
  /\ spc' = "backfill"
  /\ pendingChannels' = ChannelIds
  /\ runFailed' = FALSE
  /\ syncRuns' = syncRuns + 1
  /\ UNCHANGED <<slackHistory, slackRows, slackSyncStatus, oldest, backfills>>
  /\ UNCHANGED outsideSlack

\* the mapper of pMap for one channel; the channels finish in any order.
\* A fetch that throws reaches the catch, whose update rejects when the
\* workspace has no status row yet
BackfillChannel(c) ==
  /\ spc = "backfill"
  /\ c \in pendingChannels
  /\ \E fetched \in BOOLEAN :
       IF fetched
       THEN LET msgs == OldestFirst(fetchChannelMessages(slackHistory, c, 0))
            IN  /\ slackRows' = ProcessAll(slackRows, c, msgs)
                /\ slackSyncStatus' = BackfillUpsert(slackSyncStatus, Len(msgs))
                /\ UNCHANGED runFailed
       ELSE /\ slackSyncStatus' = IF slackSyncStatus = NoValue THEN NoValue
                                  ELSE CountError(slackSyncStatus)
            /\ runFailed' = TRUE
            /\ UNCHANGED slackRows
  /\ pendingChannels' = pendingChannels \ {c}
  /\ UNCHANGED <<slackHistory, spc, oldest, syncRuns, backfills>>
  /\ UNCHANGED outsideSlack

\* incrementalSync is called: the cursor is read once
StartIncremental ==
  /\ spc = "idle"
  /\ syncRuns < MaxSyncRuns
  /\ spc' = "incremental"
  /\ oldest' = IF slackSyncStatus = NoValue THEN 0
               ELSE slackSyncStatus.lastMessageTimestamp
  /\ pendingChannels' = ChannelIds
  /\ runFailed' = FALSE
  /\ syncRuns' = syncRuns + 1
  /\ backfills' = <<>>
  /\ UNCHANGED <<slackHistory, slackRows, slackSyncStatus>>
  /\ UNCHANGED outsideSlack

\* the channel the for loop of incrementalSync handles next
NextChannel ==
  Channels[CHOOSE i \in 1..Len(Channels) :
             /\ Channels[i] \in pendingChannels
             /\ \A j \in 1..(i - 1) : Channels[j] \notin pendingChannels]

\* one turn of the for loop of incrementalSync; a throw in the catch ends
\* the loop
IncrementalChannel ==
  /\ spc = "incremental"
  /\ pendingChannels # {}
  /\ LET c == NextChannel
     IN  \E fetched \in BOOLEAN :
           IF fetched
           THEN LET msgs ==
                      OldestFirst(fetchChannelMessages(slackHistory, c, oldest))
                IN  /\ IF msgs = <<>>
                       THEN UNCHANGED <<slackRows, slackSyncStatus>>
                       ELSE /\ slackRows' = ProcessAll(slackRows, c, msgs)
                            /\ slackSyncStatus' =
                                 IncrementalUpsert(slackSyncStatus,
                                                   LatestTs(oldest, msgs),
                                                   Len(msgs))
                    /\ pendingChannels' = pendingChannels \ {c}
                    /\ UNCHANGED runFailed
           ELSE /\ runFailed' = TRUE
                /\ UNCHANGED slackRows
                /\ IF slackSyncStatus = NoValue
                   THEN /\ pendingChannels' = {}
                        /\ UNCHANGED slackSyncStatus
                   ELSE /\ pendingChannels' = pendingChannels \ {c}
                        /\ slackSyncStatus' = CountError(slackSyncStatus)
  /\ UNCHANGED <<slackHistory, spc, oldest, syncRuns, backfills>>
  /\ UNCHANGED outsideSlack

\* the running sync returns
SyncReturns ==
  /\ spc \in {"backfill", "incremental"}
  /\ pendingChannels = {}
  /\ spc' = "idle"
  /\ backfills' = IF spc = "incremental" THEN backfills
                  ELSE IF runFailed THEN <<>>
                  ELSE Append(backfills, Persisted)
  /\ UNCHANGED <<slackHistory, slackRows, slackSyncStatus, pendingChannels,
                 oldest, syncRuns, runFailed>>
  /\ UNCHANGED outsideSlack

InitSlack ==
  /\ OutsideSlackIdle
  /\ slackHistory \in SlackHistories
  /\ slackRows = <<>>
  /\ slackSyncStatus = NoValue
  /\ spc = "idle"
  /\ pendingChannels = {}
  /\ oldest = 0
  /\ syncRuns = 0
  /\ runFailed = FALSE
  /\ backfills = <<>>

NextSlack ==
  \/ StartBackfill
  \/ \E c \in ChannelIds : BackfillChannel(c)
  \/ StartIncremental
  \/ IncrementalChannel
  \/ SyncReturns

SpecSlack == InitSlack /\ [][NextSlack]_vars

\* C24: backfillWorkspace is idempotent: a second run over the same Slack
\* history leaves the persisted state as the first run left it, with no
\* further conversation rows and the same totalChannels and totalMessages
C24_SecondBackfillChangesNothing ==
  \A k \in 1..(Len(backfills) - 1) : backfills[k + 1] = backfills[k]

\* C30: incrementalSync never leaves the stored lastMessageTimestamp beyond
\* a message of the workspace that has no conversation row
C30_CursorNeverPassesAnUningestedMessage ==
  (spc = "idle" /\ slackSyncStatus # NoValue) =>
    \A c \in ChannelIds : \A ts \in slackHistory[c] :
      ts <= slackSyncStatus.lastMessageTimestamp =>
        \E k \in 1..Len(slackRows) : slackRows[k] = ExternalId(c, ts)

\* ------------------------------------------------------------------------
\* SpecChunk: the while loop of TextChunker.chunkText
\* ------------------------------------------------------------------------
MaxTextLen == 4

MaxChunkSize == 3

MaxChunks == 5

DefaultChunkSize == 1000

DefaultOverlap == 100

\* the chunkers of the claim: chunkSize > overlap >= 0, the defaults included
ChunkerConfigs ==
  {[chunkSize |-> DefaultChunkSize, overlap |-> DefaultOverlap]} \cup
  {c \in [chunkSize : 1..MaxChunkSize, overlap : 0..MaxChunkSize] :
     c.overlap < c.chunkSize}

\* text.substring(startIndex, endIndex): a negative start counts as 0
SubstringRange(from, to) == <<IF from < 0 THEN 0 ELSE from, to>>

\* one pass of the while loop; the pass whose break condition holds leaves
\* the loop at once. The model keeps the first MaxChunks chunks; the array
\* of the program goes on growing
ChunkPass ==
  /\ cpc = "loop"
  /\ startIndex < chunkInput.length
  /\ LET endIndex == Min(startIndex + chunkInput.chunkSize, chunkInput.length)
     IN  /\ chunks' = IF Len(chunks) < MaxChunks
                      THEN Append(chunks, SubstringRange(startIndex, endIndex))
                      ELSE chunks
         /\ startIndex' = endIndex - chunkInput.overlap
  /\ UNCHANGED <<chunkInput, cpc>>
  /\ UNCHANGED outsideChunk

\* the loop is left and chunks is returned (an empty text returns at once)
ChunkReturn ==
  /\ cpc = "loop"
  /\ startIndex >= chunkInput.length
  /\ cpc' = "returned"
  /\ UNCHANGED <<chunkInput, startIndex, chunks>>
  /\ UNCHANGED outsideChunk

InitChunk ==
  /\ OutsideChunkIdle
  /\ \E n \in 0..MaxTextLen, c \in ChunkerConfigs :
       chunkInput = [length |-> n, chunkSize |-> c.chunkSize,
                     overlap |-> c.overlap]
  /\ startIndex = 0
  /\ chunks = <<>>
  /\ cpc = "loop"

NextChunk ==
  \/ ChunkPass
  \/ ChunkReturn

SpecChunk == InitChunk /\ [][NextChunk]_vars

\* the call keeps running: no step of it is put off forever
SpecChunkFair == SpecChunk /\ WF_vars(ChunkPass) /\ WF_vars(ChunkReturn)

\* C25: chunkText terminates and returns its list for every non-empty text
\* and every chunker with chunkSize > overlap >= 0
C25_ChunkTextTerminates ==
  (chunkInput.length > 0) ~> (cpc = "returned")

\* how often an item occurs in a list of results
Occurrences(items, r) == Cardinality({i \in 1..Len(items) : items[i] = r})

\* C26: for every reply of the model, the list rerankResults returns is a
\* permutation of the list it was given: the same length and every item
\* exactly once
C26_RerankReturnsAPermutation ==
  (Merged /\ qpc # "rerank" /\ rerankReply # 0) =>
    /\ Len(finalResults) = Len(combinedResults)
    /\ \A i \in 1..Len(combinedResults) :
         Occurrences(finalResults, combinedResults[i]) =
           Occurrences(combinedResults, combinedResults[i])

\* ------------------------------------------------------------------------
\* SpecBatch: extractContextForDecisions, its contexts handed on to
\* generateRationales
\* ------------------------------------------------------------------------
MaxBatch == 3

\* the batches: decisions with ids of their own
Batches == {[i \in 1..n |-> <<"dec", i>>] : n \in 1..MaxBatch}

\* how extractContextForDecision ends for one decision: with the extracted
\* context, with the degraded context of its catch, or with an exception
ExtractionOutcomes == {"extracted", "degraded", "throws"}

ExtractedFor(decisionId, outcome) ==
  [decisionId |-> decisionId,
   confidence |-> IF outcome = "degraded" THEN 500 ELSE 900]

\* the context generateRationales builds when contexts[i] is undefined
DefaultContextFor(decisionId) == [decisionId |-> decisionId, confidence |-> 500]

\* contexts[i] || { decisionId: decisions[i].id, ... }
ContextAt(contexts, i, decisionId) ==
  IF i <= Len(contexts) THEN contexts[i] ELSE DefaultContextFor(decisionId)

\* one pass of the loop of extractContextForDecisions: a context is pushed,
\* or the catch goes on to the next decision
ExtractOne ==
  /\ batchPc = "extract"
  /\ batchIndex <= Len(batchDecisions)
  /\ \E outcome \in ExtractionOutcomes :
       batchContexts' =
         IF outcome = "throws" THEN batchContexts
         ELSE Append(batchContexts,
                     ExtractedFor(batchDecisions[batchIndex], outcome))
  /\ batchIndex' = batchIndex + 1
  /\ UNCHANGED <<batchDecisions, batchPc, batchUsed>>
  /\ UNCHANGED outsideBatch

\* extractContextForDecisions returns contexts and generateRationales is
\* called with the same decisions and that array
HandOver ==
  /\ batchPc = "extract"
  /\ batchIndex > Len(batchDecisions)
  /\ batchPc' = "generate"
  /\ batchIndex' = 1
  /\ UNCHANGED <<batchDecisions, batchContexts, batchUsed>>
  /\ UNCHANGED outsideBatch

\* one pass of the loop of generateRationales: generateRationale is called
\* with decisions[i] and the context found at i
GenerateOne ==
  /\ batchPc = "generate"
  /\ batchIndex <= Len(batchDecisions)
  /\ batchUsed' =
       Append(batchUsed,
              [decision |-> batchDecisions[batchIndex],
               context |-> ContextAt(batchContexts, batchIndex,
                                     batchDecisions[batchIndex])])
  /\ batchIndex' = batchIndex + 1
  /\ UNCHANGED <<batchDecisions, batchContexts, batchPc>>
  /\ UNCHANGED outsideBatch

\* generateRationales returns
BatchReturns ==
  /\ batchPc = "generate"
  /\ batchIndex > Len(batchDecisions)
  /\ batchPc' = "done"
  /\ UNCHANGED <<batchDecisions, batchContexts, batchIndex, batchUsed>>
  /\ UNCHANGED outsideBatch

InitBatch ==
  /\ OutsideBatchIdle
  /\ batchDecisions \in Batches
  /\ batchContexts = <<>>
  /\ batchPc = "extract"
  /\ batchIndex = 1
  /\ batchUsed = <<>>

NextBatch ==
  \/ ExtractOne
  \/ HandOver
  \/ GenerateOne
  \/ BatchReturns

SpecBatch == InitBatch /\ [][NextBatch]_vars

\* C27: in a batch, the context generateRationale receives for decisions[i]
\* carries the id of decisions[i], also when the extraction of another
\* decision of the batch failed
C27_EachDecisionGetsItsOwnContext ==
  \A k \in 1..Len(batchUsed) :
    batchUsed[k].context.decisionId = batchUsed[k].decision

\* ------------------------------------------------------------------------
\* SpecRace: runDetection and runOnConversationIds started by requests that
\* overlap; every await of the persistence loop is a point where the other
\* run can take a step
\* ------------------------------------------------------------------------
MaxConcurrentRuns == 2

DetectionRuns == 1..MaxConcurrentRuns

\* the route starts a run without awaiting it: the conversations are
\* fetched and detectDecisions returns
StartConcurrentRun(r) ==
  /\ runPc[r] = "idle"
  /\ \E fn \in {"runDetection", "runOnConversationIds"} :
     \E limit \in {1, DefaultLimit}, ids \in SUBSET ConversationIds :
     \E replies \in [ConversationIds -> DetectionReplies] :
       LET convs == IF fn = "runDetection"
                    THEN Take(Unlinked(sharedCandidates), limit)
                    ELSE WithIds(ids)
       IN  /\ fn = "runDetection" => ids = {}
           /\ fn = "runOnConversationIds" => limit = DefaultLimit
           /\ runFn' = [runFn EXCEPT ![r] = fn]
           /\ runDetections' = [runDetections EXCEPT ![r] =
                detectDecisions(convs, replies, uuidCounter)]
           /\ uuidCounter' = uuidCounter + Len(convs)
           /\ runPc' = [runPc EXCEPT ![r] =
                IF Len(convs) = 0 THEN "done" ELSE "find"]
  /\ UNCHANGED <<sharedCandidates, runIndex, runCreated>>
  /\ UNCHANGED outsideRace

\* the loop reaches a detection: await findFirst({ conversationId })
FindExisting(r) ==
  /\ runPc[r] = "find"
  /\ runIndex[r] <= Len(runDetections[r])
  /\ LET d == runDetections[r][runIndex[r]]
     IN  IF ~d.isDecision \/ Existing(sharedCandidates, d.conversationId)
         THEN /\ runIndex' = [runIndex EXCEPT ![r] = @ + 1]
              /\ UNCHANGED runPc
         ELSE /\ runPc' = [runPc EXCEPT ![r] = "create"]
              /\ UNCHANGED runIndex
  /\ UNCHANGED <<sharedCandidates, runFn, runDetections, runCreated,
                 uuidCounter>>
  /\ UNCHANGED outsideRace

\* await decisionCandidate.create; a create that throws is logged
CreateCandidate(r) ==
  /\ runPc[r] = "create"
  /\ LET d == runDetections[r][runIndex[r]]
     IN  \/ /\ sharedCandidates' =
                 sharedCandidates \cup
                   {[id |-> d.id, conversationId |-> d.conversationId]}
            /\ runCreated' = [runCreated EXCEPT ![r] = @ + 1]
         \/ UNCHANGED <<sharedCandidates, runCreated>>
  /\ runIndex' = [runIndex EXCEPT ![r] = @ + 1]
  /\ runPc' = [runPc EXCEPT ![r] = "find"]
  /\ UNCHANGED <<runFn, runDetections, uuidCounter>>
  /\ UNCHANGED outsideRace

\* the loop is over: return { scanned, created }
ConcurrentRunReturns(r) ==
  /\ runPc[r] = "find"
  /\ runIndex[r] > Len(runDetections[r])
  /\ runPc' = [runPc EXCEPT ![r] = "done"]
  /\ UNCHANGED <<sharedCandidates, runFn, runDetections, runIndex,
                 runCreated, uuidCounter>>
  /\ UNCHANGED outsideRace

InitRace ==
  /\ OutsideRaceIdle
  /\ sharedCandidates = {}
  /\ runPc = [r \in DetectionRuns |-> "idle"]
  /\ runFn = [r \in DetectionRuns |-> "none"]
  /\ runDetections = [r \in DetectionRuns |-> <<>>]
  /\ runIndex = [r \in DetectionRuns |-> 1]
  /\ runCreated = [r \in DetectionRuns |-> 0]
  /\ uuidCounter = 1

NextRace ==
  \/ \E r \in DetectionRuns : StartConcurrentRun(r)
  \/ \E r \in DetectionRuns : FindExisting(r)
  \/ \E r \in DetectionRuns : CreateCandidate(r)
  \/ \E r \in DetectionRuns : ConcurrentRunReturns(r)

SpecRace == InitRace /\ [][NextRace]_vars

\* C29: no conversation ever has two decision_candidates rows, also when
\* two detection runs are in flight at the same time
C29_OneCandidatePerConversationUnderConcurrency ==
  \A c \in ConversationIds :
    Cardinality({row \in sharedCandidates : row.conversationId = c}) <= 1

====
